---- MODULE Spec2Model ----
(***************************************************************************)
(* The rules engine of the chess program: the piece movement rules of      *)
(* js/chess-pieces.js and the game state machine of js/chess-logic.js      *)
(* (class ChessGame), with the game copies the search classes of          *)
(* js/chess-ai.js and js/chess-ai-enhanced.js work on.  A game is a        *)
(* record holding the fields of a                                          *)
(* ChessGame object; a piece is a record holding the fields of a           *)
(* ChessPiece object.  JavaScript null is Null for a piece, NullSquare     *)
(* for a square and NullMove for lastMove.  Lists are sequences, in the    *)
(* order the code pushes their elements.                                   *)
(***************************************************************************)
EXTENDS Integers, Sequences, FiniteSets, TLC

VARIABLES game, call, ret, ply, clones, ai, answers, search, ui

vars == <<game, call, ret, ply, clones, ai, answers, search, ui>>

(***************************************************************************)
(* Bound of the exploration: the number of makeMove calls made, on the     *)
(* game or on a copy of it, after the opening line that leads to the       *)
(* starting position of a behaviour.                                       *)
(***************************************************************************)
MaxPly == 1

----------------------------------------------------------------------------
(* js/chess-pieces.js                                                      *)

Null == [type |-> "NONE", color |-> "NONE", row |-> -1, col |-> -1, hasMoved |-> FALSE]

NullSquare == <<>>

Rows == 0 .. 7

Colors == {"WHITE", "BLACK"}

PromotionChoices == {"QUEEN", "ROOK", "BISHOP", "KNIGHT"}

(* The value of an argument the caller leaves out.                         *)
Undefined == "UNDEFINED"

ChessPiece(type, color, row, col) ==
    [type |-> type, color |-> color, row |-> row, col |-> col, hasMoved |-> FALSE]

moveTo(piece, newRow, newCol) ==
    [piece EXCEPT !.row = newRow, !.col = newCol, !.hasMoved = TRUE]

OnBoard(row, col) == row >= 0 /\ row < 8 /\ col >= 0 /\ col < 8

Abs(x) == IF x < 0 THEN -x ELSE x

OppositeColor(color) == IF color = "WHITE" THEN "BLACK" ELSE "WHITE"

(* moves.some(([moveRow, moveCol]) => moveRow === row && moveCol === col)  *)
HasMove(moves, row, col) == \E i \in 1 .. Len(moves) : moves[i] = <<row, col>>

(* PawnCapture without the test that a piece stands on the square.         *)
PawnCaptureOntoEmpty(piece, board, newRow, colOffset) ==
    LET newCol == piece.col + colOffset
    IN  IF /\ newCol >= 0 /\ newCol < 8 /\ newRow >= 0 /\ newRow < 8
           /\ \/ board[newRow][newCol] = Null
              \/ board[newRow][newCol].color # piece.color
        THEN << <<newRow, newCol>> >>
        ELSE << >>

(* The two diagonal capture squares of a pawn, in the order of the loop.   *)
PawnCapture(piece, board, newRow, colOffset) ==
    LET newCol == piece.col + colOffset
    IN  IF /\ newCol >= 0 /\ newCol < 8 /\ newRow >= 0 /\ newRow < 8
           /\ board[newRow][newCol] # Null
           /\ board[newRow][newCol].color # piece.color
        THEN << <<newRow, newCol>> >>
        ELSE << >>

getPawnMoves(piece, board, enPassantTarget) ==
    LET direction == IF piece.color = "WHITE" THEN -1 ELSE 1
        startRow == IF piece.color = "WHITE" THEN 6 ELSE 1
        enPassantRow == IF piece.color = "WHITE" THEN 3 ELSE 4
        newRow == piece.row + direction
        forward ==
            IF newRow >= 0 /\ newRow < 8 /\ board[newRow][piece.col] = Null
            THEN << <<newRow, piece.col>> >> \o
                 (IF piece.row = startRow /\ board[newRow + direction][piece.col] = Null
                  THEN << <<newRow + direction, piece.col>> >>
                  ELSE << >>)
            ELSE << >>
        captures == PawnCapture(piece, board, newRow, -1) \o PawnCapture(piece, board, newRow, 1)
        enPassant ==
            IF /\ enPassantTarget # NullSquare
               /\ piece.row = enPassantRow
               /\ Abs(enPassantTarget[2] - piece.col) = 1
               /\ enPassantTarget[1] = piece.row + direction
            THEN << enPassantTarget >>
            ELSE << >>
    IN  forward \o captures \o enPassant

(* Slide without the test of the color of the piece that stops it: the     *)
(* first occupied square is reached whatever piece stands on it.           *)
RECURSIVE SlideOntoAnyPiece(_, _, _, _, _)
SlideOntoAnyPiece(piece, board, rowDir, colDir, i) ==
    LET newRow == piece.row + rowDir * i
        newCol == piece.col + colDir * i
    IN  IF i >= 8 \/ ~OnBoard(newRow, newCol)
        THEN << >>
        ELSE IF board[newRow][newCol] = Null
             THEN << <<newRow, newCol>> >> \o
                  SlideOntoAnyPiece(piece, board, rowDir, colDir, i + 1)
             ELSE << <<newRow, newCol>> >>

(* The inner loop of getRookMoves and getBishopMoves: the squares reached  *)
(* from step i on in one direction, up to the first occupied square.       *)
RECURSIVE Slide(_, _, _, _, _)
Slide(piece, board, rowDir, colDir, i) ==
    LET newRow == piece.row + rowDir * i
        newCol == piece.col + colDir * i
    IN  IF i >= 8 \/ ~OnBoard(newRow, newCol)
        THEN << >>
        ELSE IF board[newRow][newCol] = Null
             THEN << <<newRow, newCol>> >> \o Slide(piece, board, rowDir, colDir, i + 1)
             ELSE IF board[newRow][newCol].color # piece.color
                  THEN << <<newRow, newCol>> >>
                  ELSE << >>

getRookMoves(piece, board) ==
    Slide(piece, board, 0, 1, 1) \o Slide(piece, board, 0, -1, 1) \o
    Slide(piece, board, 1, 0, 1) \o Slide(piece, board, -1, 0, 1)

getBishopMoves(piece, board) ==
    Slide(piece, board, 1, 1, 1) \o Slide(piece, board, 1, -1, 1) \o
    Slide(piece, board, -1, 1, 1) \o Slide(piece, board, -1, -1, 1)

getQueenMoves(piece, board) == getRookMoves(piece, board) \o getBishopMoves(piece, board)

knightMoves ==
    << <<-2, -1>>, <<-2, 1>>, <<-1, -2>>, <<-1, 2>>,
       <<1, -2>>, <<1, 2>>, <<2, -1>>, <<2, 1>> >>

kingMoves ==
    << <<-1, -1>>, <<-1, 0>>, <<-1, 1>>,
       <<0, -1>>,             <<0, 1>>,
       <<1, -1>>,  <<1, 0>>,  <<1, 1>> >>

(* The loop shared by getKnightMoves and getKingMoves: the offsets that    *)
(* land on the board, on an empty square or on a piece of the other color. *)
StepMoves(piece, board, offsets) ==
    LET targets == [i \in 1 .. Len(offsets) |->
                       <<piece.row + offsets[i][1], piece.col + offsets[i][2]>>]
        Free(sq) == /\ OnBoard(sq[1], sq[2])
                    /\ \/ board[sq[1]][sq[2]] = Null
                       \/ board[sq[1]][sq[2]].color # piece.color
    IN  SelectSeq(targets, Free)

getKnightMoves(piece, board) == StepMoves(piece, board, knightMoves)

getKingMoves(piece, board, canCastleKingSide, canCastleQueenSide) ==
    StepMoves(piece, board, kingMoves) \o
    (IF ~piece.hasMoved /\ piece.col = 4
     THEN (IF canCastleKingSide THEN << <<piece.row, 6>> >> ELSE << >>) \o
          (IF canCastleQueenSide THEN << <<piece.row, 2>> >> ELSE << >>)
     ELSE << >>)

getPossibleMoves(piece, board, gameContext) ==
    CASE piece.type = "PAWN"   -> getPawnMoves(piece, board, gameContext.enPassantTarget)
      [] piece.type = "ROOK"   -> getRookMoves(piece, board)
      [] piece.type = "KNIGHT" -> getKnightMoves(piece, board)
      [] piece.type = "BISHOP" -> getBishopMoves(piece, board)
      [] piece.type = "QUEEN"  -> getQueenMoves(piece, board)
      [] piece.type = "KING"   -> getKingMoves(piece, board, gameContext.canCastleKingSide,
                                               gameContext.canCastleQueenSide)
      [] OTHER                 -> << >>

----------------------------------------------------------------------------
(* js/chess-logic.js : class ChessGame.  The Unicode symbol of a piece is  *)
(* display data and is left out.                                           *)

NullMove == [from |-> NullSquare, to |-> NullSquare, piece |-> "NONE"]

pieceOrder == <<"ROOK", "KNIGHT", "BISHOP", "QUEEN", "KING", "BISHOP", "KNIGHT", "ROOK">>

initializeBoard ==
    [row \in Rows |-> [col \in Rows |->
        CASE row = 1 -> ChessPiece("PAWN", "BLACK", 1, col)
          [] row = 6 -> ChessPiece("PAWN", "WHITE", 6, col)
          [] row = 0 -> ChessPiece(pieceOrder[col + 1], "BLACK", 0, col)
          [] row = 7 -> ChessPiece(pieceOrder[col + 1], "WHITE", 7, col)
          [] OTHER   -> Null]]

(* The constructor; reset() assigns the same values.                       *)
NewGame ==
    [board           |-> initializeBoard,
     currentPlayer   |-> "WHITE",
     gameState       |-> "playing",
     moveHistory     |-> << >>,
     capturedPieces  |-> [WHITE |-> << >>, BLACK |-> << >>],
     lastMove        |-> NullMove,
     kingPositions   |-> [WHITE |-> <<7, 4>>, BLACK |-> <<0, 4>>],
     enPassantTarget |-> NullSquare,
     halfMoveClock   |-> 0,
     fullMoveNumber  |-> 1]

getPieceAt(g, row, col) ==
    IF row < 0 \/ row >= 8 \/ col < 0 \/ col >= 8 THEN Null ELSE g.board[row][col]

(* For attack checking the context never allows castling.                  *)
isSquareUnderAttack(g, row, col, attackingColor) ==
    \E r \in Rows : \E c \in Rows :
        LET piece == g.board[r][c]
        IN  /\ piece # Null
            /\ piece.color = attackingColor
            /\ HasMove(getPossibleMoves(piece, g.board,
                           [enPassantTarget    |-> g.enPassantTarget,
                            canCastleKingSide  |-> FALSE,
                            canCastleQueenSide |-> FALSE]),
                       row, col)

isInCheck(g, color) ==
    LET kingPos == g.kingPositions[color]
    IN  isSquareUnderAttack(g, kingPos[1], kingPos[2], OppositeColor(color))

canCastle(g, color, kingSide) ==
    LET row == IF color = "WHITE" THEN 7 ELSE 0
        king == getPieceAt(g, row, 4)
        rook == getPieceAt(g, row, IF kingSide THEN 7 ELSE 0)
        oppositeColor == OppositeColor(color)
    IN  /\ ~(king = Null \/ king.type # "KING" \/ king.hasMoved)
        /\ ~(rook = Null \/ rook.type # "ROOK" \/ rook.hasMoved)
        /\ ~isInCheck(g, color)
        /\ IF kingSide
           THEN ~(getPieceAt(g, row, 5) # Null \/ getPieceAt(g, row, 6) # Null)
           ELSE ~(getPieceAt(g, row, 1) # Null \/ getPieceAt(g, row, 2) # Null
                    \/ getPieceAt(g, row, 3) # Null)
        /\ IF kingSide
           THEN ~(isSquareUnderAttack(g, row, 5, oppositeColor)
                    \/ isSquareUnderAttack(g, row, 6, oppositeColor))
           ELSE ~(isSquareUnderAttack(g, row, 3, oppositeColor)
                    \/ isSquareUnderAttack(g, row, 2, oppositeColor))

(* The gameContext object built by getLegalMoves and by isLegalMove.       *)
GameContext(g, piece) ==
    [enPassantTarget    |-> g.enPassantTarget,
     canCastleKingSide  |-> IF piece.type = "KING" THEN canCastle(g, piece.color, TRUE) ELSE FALSE,
     canCastleQueenSide |-> IF piece.type = "KING" THEN canCastle(g, piece.color, FALSE) ELSE FALSE]

(* isLegalMove, lines 117-141: the locals saved before the temporary move. *)
SavedState(g, piece, toRow, toCol) ==
    [originalKingPositions |-> g.kingPositions,
     capturedPiece         |-> g.board[toRow][toCol],
     originalRow           |-> piece.row,
     originalCol           |-> piece.col,
     enPassantCapturedPawn |->
         IF /\ piece.type = "PAWN" /\ g.enPassantTarget # NullSquare
            /\ toRow = g.enPassantTarget[1] /\ toCol = g.enPassantTarget[2]
         THEN g.board[IF piece.color = "WHITE" THEN toRow + 1 ELSE toRow - 1][toCol]
         ELSE Null]

(* isLegalMove, lines 123-141: the game with the move made temporarily.    *)
TemporaryMove(g, piece, fromRow, fromCol, toRow, toCol) ==
    LET captureRow == IF piece.color = "WHITE" THEN toRow + 1 ELSE toRow - 1
        enPassant == /\ piece.type = "PAWN" /\ g.enPassantTarget # NullSquare
                     /\ toRow = g.enPassantTarget[1] /\ toCol = g.enPassantTarget[2]
        board1 == IF enPassant THEN [g.board EXCEPT ![captureRow][toCol] = Null] ELSE g.board
        moved == [piece EXCEPT !.row = toRow, !.col = toCol]
        board2 == [[board1 EXCEPT ![toRow][toCol] = moved] EXCEPT ![fromRow][fromCol] = Null]
    IN  [g EXCEPT !.board = board2,
                  !.kingPositions = IF piece.type = "KING"
                                    THEN [@ EXCEPT ![piece.color] = <<toRow, toCol>>]
                                    ELSE @]

(* RestoreMove without lines 153-157: the pawn taken off the board for an *)
(* en passant capture is not put back.                                     *)
RestoreMoveWithoutPawn(tmp, saved, fromRow, fromCol, toRow, toCol) ==
    LET piece == [tmp.board[toRow][toCol] EXCEPT !.row = saved.originalRow,
                                                 !.col = saved.originalCol]
    IN  [tmp EXCEPT !.board = [[@ EXCEPT ![fromRow][fromCol] = piece]
                                    EXCEPT ![toRow][toCol] = saved.capturedPiece],
                    !.kingPositions = saved.originalKingPositions]

(* RestoreMove without line 150: kingPositions keeps the square the king   *)
(* was moved to temporarily.                                               *)
RestoreMoveKeepingKing(tmp, saved, fromRow, fromCol, toRow, toCol) ==
    LET piece == [tmp.board[toRow][toCol] EXCEPT !.row = saved.originalRow,
                                                 !.col = saved.originalCol]
        captureRow == IF piece.color = "WHITE" THEN toRow + 1 ELSE toRow - 1
        board1 == [[tmp.board EXCEPT ![fromRow][fromCol] = piece]
                        EXCEPT ![toRow][toCol] = saved.capturedPiece]
        board2 == IF saved.enPassantCapturedPawn # Null
                  THEN [board1 EXCEPT ![captureRow][toCol] = saved.enPassantCapturedPawn]
                  ELSE board1
    IN  [tmp EXCEPT !.board = board2]

(* isLegalMove, lines 146-157: the temporary move undone from the locals.  *)
RestoreMove(tmp, saved, fromRow, fromCol, toRow, toCol) ==
    LET piece == [tmp.board[toRow][toCol] EXCEPT !.row = saved.originalRow,
                                                 !.col = saved.originalCol]
        captureRow == IF piece.color = "WHITE" THEN toRow + 1 ELSE toRow - 1
        board1 == [[tmp.board EXCEPT ![fromRow][fromCol] = piece]
                        EXCEPT ![toRow][toCol] = saved.capturedPiece]
        board2 == IF saved.enPassantCapturedPawn # Null
                  THEN [board1 EXCEPT ![captureRow][toCol] = saved.enPassantCapturedPawn]
                  ELSE board1
    IN  [tmp EXCEPT !.board = board2, !.kingPositions = saved.originalKingPositions]

(* isLegalMoveRun without the test of line 99 that the piece belongs to   *)
(* the side to move.                                                       *)
isLegalMoveRunAnySide(g, fromRow, fromCol, toRow, toCol) ==
    LET piece == getPieceAt(g, fromRow, fromCol)
    IN  IF piece = Null
        THEN [result |-> FALSE, game |-> g]
        ELSE IF ~HasMove(getPossibleMoves(piece, g.board, GameContext(g, piece)), toRow, toCol)
        THEN [result |-> FALSE, game |-> g]
        ELSE IF piece.type = "KING" /\ Abs(toCol - fromCol) = 2
        THEN [result |-> TRUE, game |-> g]
        ELSE LET saved == SavedState(g, piece, toRow, toCol)
                 tmp == TemporaryMove(g, piece, fromRow, fromCol, toRow, toCol)
             IN  [result |-> ~isInCheck(tmp, piece.color),
                  game   |-> RestoreMove(tmp, saved, fromRow, fromCol, toRow, toCol)]

(* isLegalMove: its return value (result) and the game it leaves (game).   *)
isLegalMoveRun(g, fromRow, fromCol, toRow, toCol) ==
    LET piece == getPieceAt(g, fromRow, fromCol)
    IN  IF piece = Null \/ piece.color # g.currentPlayer
        THEN [result |-> FALSE, game |-> g]
        ELSE IF ~HasMove(getPossibleMoves(piece, g.board, GameContext(g, piece)), toRow, toCol)
        THEN [result |-> FALSE, game |-> g]
        ELSE IF piece.type = "KING" /\ Abs(toCol - fromCol) = 2
        THEN [result |-> TRUE, game |-> g]
        ELSE LET saved == SavedState(g, piece, toRow, toCol)
                 tmp == TemporaryMove(g, piece, fromRow, fromCol, toRow, toCol)
             IN  [result |-> ~isInCheck(tmp, piece.color),
                  game   |-> RestoreMove(tmp, saved, fromRow, fromCol, toRow, toCol)]

isLegalMove(g, fromRow, fromCol, toRow, toCol) ==
    isLegalMoveRun(g, fromRow, fromCol, toRow, toCol).result

getLegalMoves(g, piece) ==
    IF piece = Null
    THEN << >>
    ELSE LET possibleMoves == getPossibleMoves(piece, g.board, GameContext(g, piece))
             Legal(sq) == isLegalMove(g, piece.row, piece.col, sq[1], sq[2])
         IN  SelectSeq(possibleMoves, Legal)

hasLegalMoves(g, color) ==
    \E row \in Rows : \E col \in Rows :
        LET piece == getPieceAt(g, row, col)
        IN  /\ piece # Null
            /\ piece.color = color
            /\ Len(getLegalMoves(g, piece)) > 0

(* The 64 squares in the order of the nested row and column loops.         *)
AllSquares == [i \in 1 .. 64 |-> <<(i - 1) \div 8, (i - 1) % 8>>]

(* isInsufficientMaterial, lines 327-336: pieces[color], the types of the  *)
(* pieces of one color in board order.                                     *)
PieceTypes(g, color) ==
    LET Mine(sq) == g.board[sq[1]][sq[2]] # Null /\ g.board[sq[1]][sq[2]].color = color
        squares == SelectSeq(AllSquares, Mine)
    IN  [i \in 1 .. Len(squares) |-> g.board[squares[i][1]][squares[i][2]].type]

(* isInsufficientMaterial without the test of line 344 that the other     *)
(* side has its king alone.                                                *)
isInsufficientMaterialAgainstAny(g) ==
    LET pieces == [WHITE |-> PieceTypes(g, "WHITE"), BLACK |-> PieceTypes(g, "BLACK")]
        NotKing(t) == t # "KING"
        LoneMinor(color) ==
            /\ Len(pieces[color]) = 2
            /\ LET others == SelectSeq(pieces[color], NotKing)
               IN  others # << >> /\ others[1] \in {"BISHOP", "KNIGHT"}
    IN  \/ Len(pieces.WHITE) = 1 /\ Len(pieces.BLACK) = 1
        \/ LoneMinor("WHITE")
        \/ LoneMinor("BLACK")

isInsufficientMaterial(g) ==
    LET pieces == [WHITE |-> PieceTypes(g, "WHITE"), BLACK |-> PieceTypes(g, "BLACK")]
        NotKing(t) == t # "KING"
        LoneMinor(color) ==
            /\ Len(pieces[color]) = 2
            /\ Len(pieces[OppositeColor(color)]) = 1
            /\ LET others == SelectSeq(pieces[color], NotKing)
               IN  others # << >> /\ others[1] \in {"BISHOP", "KNIGHT"}
    IN  \/ Len(pieces.WHITE) = 1 /\ Len(pieces.BLACK) = 1
        \/ LoneMinor("WHITE")
        \/ LoneMinor("BLACK")

(* updateGameState, lines 295-308: the status computed from its locals    *)
(* inCheck and hasLegalMoves and from the two draw tests.                  *)
GameStateOf(inCheck, hasMoves, draw) ==
    LET state1 == IF inCheck /\ ~hasMoves THEN "checkmate"
                  ELSE IF ~inCheck /\ ~hasMoves THEN "stalemate"
                  ELSE IF inCheck THEN "check"
                  ELSE "playing"
    IN  IF draw THEN "draw" ELSE state1

updateGameState(g) ==
    [g EXCEPT !.gameState =
        GameStateOf(isInCheck(g, g.currentPlayer),
                    hasLegalMoves(g, g.currentPlayer),
                    g.halfMoveClock >= 100 \/ isInsufficientMaterial(g))]

(* handleCastling without line 250: the rook's old square is not cleared.   *)
handleCastlingKeepingRook(g, fromRow, fromCol, toRow, toCol) ==
    LET isKingSide == toCol > fromCol
        rookFromCol == IF isKingSide THEN 7 ELSE 0
        rookToCol == IF isKingSide THEN 5 ELSE 3
        rook == getPieceAt(g, fromRow, rookFromCol)
    IN  IF rook # Null
        THEN [g EXCEPT !.board = [@ EXCEPT ![fromRow][rookToCol] = moveTo(rook, fromRow, rookToCol)]]
        ELSE g

handleCastling(g, fromRow, fromCol, toRow, toCol) ==
    LET isKingSide == toCol > fromCol
        rookFromCol == IF isKingSide THEN 7 ELSE 0
        rookToCol == IF isKingSide THEN 5 ELSE 3
        rook == getPieceAt(g, fromRow, rookFromCol)
    IN  IF rook # Null
        THEN [g EXCEPT !.board = [[@ EXCEPT ![fromRow][rookToCol] = moveTo(rook, fromRow, rookToCol)]
                                        EXCEPT ![fromRow][rookFromCol] = Null]]
        ELSE g

(* The characters a notation is made of, one sequence element each.        *)
FileChar == <<"a", "b", "c", "d", "e", "f", "g", "h">>

RankChar == <<"1", "2", "3", "4", "5", "6", "7", "8">>

TypeChar ==
    [PAWN |-> "P", KNIGHT |-> "K", BISHOP |-> "B", ROOK |-> "R", QUEEN |-> "Q", KING |-> "K"]

getMoveNotation(piece, fromRow, fromCol, toRow, toCol, capturedPiece) ==
    LET fromSquare == <<FileChar[fromCol + 1], RankChar[8 - fromRow]>>
        toSquare == <<FileChar[toCol + 1], RankChar[8 - toRow]>>
    IN  IF piece.type = "KING" /\ Abs(toCol - fromCol) = 2
        THEN IF toCol > fromCol THEN <<"O", "-", "O">> ELSE <<"O", "-", "O", "-", "O">>
        ELSE (IF piece.type # "PAWN" THEN <<TypeChar[piece.type]>> ELSE << >>) \o
             (IF capturedPiece # Null
              THEN (IF piece.type = "PAWN" THEN <<fromSquare[1]>> ELSE << >>) \o <<"x">>
              ELSE << >>) \o
             toSquare

(* makeMove, lines 172-173: the move is an en passant capture.             *)
IsEnPassantCapture(g, piece, toRow, toCol) ==
    /\ piece.type = "PAWN"
    /\ getPieceAt(g, toRow, toCol) = Null
    /\ g.enPassantTarget # NullSquare
    /\ toRow = g.enPassantTarget[1]
    /\ toCol = g.enPassantTarget[2]

(* makeMove, line 174: the row of the pawn captured en passant.            *)
CaptureRow(piece, toRow) == IF piece.color = "WHITE" THEN toRow + 1 ELSE toRow - 1

(* CapturedPiece without lines 172-176: a pawn captured en passant is not  *)
(* taken for the captured piece.                                           *)
CapturedPieceOfTarget(g, piece, toRow, toCol) ==
    getPieceAt(g, toRow, toCol)

(* makeMove, lines 169-176: the captured piece, Null when there is none.   *)
CapturedPiece(g, piece, toRow, toCol) ==
    IF IsEnPassantCapture(g, piece, toRow, toCol)
    THEN g.board[CaptureRow(piece, toRow)][toCol]
    ELSE getPieceAt(g, toRow, toCol)

(* NextHalfMoveClock without lines 185-186: a pawn move that captures      *)
(* nothing does not reset the clock.                                       *)
NextHalfMoveClockCaptureOnly(g, piece, capturedPiece) ==
    IF capturedPiece # Null THEN 0
    ELSE g.halfMoveClock + 1

(* NextHalfMoveClock without lines 182-184: a capture does not reset the   *)
(* clock unless a pawn moved.                                              *)
NextHalfMoveClockPawnOnly(g, piece, capturedPiece) ==
    IF piece.type = "PAWN" /\ capturedPiece = Null THEN 0
    ELSE g.halfMoveClock + 1

(* makeMove, lines 181-189.                                                *)
NextHalfMoveClock(g, piece, capturedPiece) ==
    IF capturedPiece # Null THEN 0
    ELSE IF piece.type = "PAWN" THEN 0
    ELSE g.halfMoveClock + 1

(* Promote without line 203 taking the caller's choice: the pawn always    *)
(* becomes a queen.                                                        *)
PromoteToQueen(piece, toRow, promotionPiece) ==
    IF piece.type = "PAWN" /\ (toRow = 0 \/ toRow = 7)
    THEN [piece EXCEPT !.type = "QUEEN"]
    ELSE piece

(* makeMove, lines 201-205: piece is the moved piece, after moveTo.        *)
Promote(piece, toRow, promotionPiece) ==
    IF piece.type = "PAWN" /\ (toRow = 0 \/ toRow = 7)
    THEN [piece EXCEPT !.type = promotionPiece]
    ELSE piece

(* NextEnPassantTarget without the test of line 213 that the piece is a    *)
(* pawn: any piece moving two rows sets a target.                          *)
NextEnPassantTargetAnyPiece(piece, fromRow, fromCol, toRow) ==
    IF Abs(toRow - fromRow) = 2
    THEN <<fromRow + (toRow - fromRow) \div 2, fromCol>>
    ELSE NullSquare

(* makeMove, lines 212-217: piece is the moved piece, after promotion.     *)
NextEnPassantTarget(piece, fromRow, fromCol, toRow) ==
    IF piece.type = "PAWN" /\ Abs(toRow - fromRow) = 2
    THEN <<fromRow + (toRow - fromRow) \div 2, fromCol>>
    ELSE NullSquare

(* NextFullMoveNumber without the test of line 231: every move counts.     *)
NextFullMoveNumberEveryMove(g) == g.fullMoveNumber + 1

(* makeMove, lines 229-233: the move number after the move of the side to  *)
(* move in g.                                                              *)
NextFullMoveNumber(g) ==
    IF OppositeColor(g.currentPlayer) = "WHITE" THEN g.fullMoveNumber + 1 ELSE g.fullMoveNumber

(* makeMove, lines 169-233: the game after a legal move, before the status *)
(* is updated.  piece is the piece on the from-square.                     *)
ApplyMove(g, piece, fromRow, fromCol, toRow, toCol, promotionPiece) ==
    LET capturedPiece == CapturedPiece(g, piece, toRow, toCol)
        board1 == IF IsEnPassantCapture(g, piece, toRow, toCol)
                  THEN [g.board EXCEPT ![CaptureRow(piece, toRow)][toCol] = Null]
                  ELSE g.board
        moveNotation == getMoveNotation(piece, fromRow, fromCol, toRow, toCol, capturedPiece)
        promoted == Promote(moveTo(piece, toRow, toCol), toRow, promotionPiece)
        board2 == [[board1 EXCEPT ![toRow][toCol] = promoted] EXCEPT ![fromRow][fromCol] = Null]
        g1 == [g EXCEPT
                 !.board = board2,
                 !.capturedPieces = IF capturedPiece # Null
                                    THEN [@ EXCEPT ![capturedPiece.color] = Append(@, capturedPiece)]
                                    ELSE @,
                 !.halfMoveClock = NextHalfMoveClock(g, piece, capturedPiece),
                 !.kingPositions = IF piece.type = "KING"
                                   THEN [@ EXCEPT ![piece.color] = <<toRow, toCol>>]
                                   ELSE @]
        g2 == IF promoted.type = "KING" /\ Abs(toCol - fromCol) = 2
              THEN handleCastling(g1, fromRow, fromCol, toRow, toCol)
              ELSE g1
    IN  [g2 EXCEPT
           !.enPassantTarget = NextEnPassantTarget(promoted, fromRow, fromCol, toRow),
           !.lastMove = [from |-> <<fromRow, fromCol>>, to |-> <<toRow, toCol>>,
                         piece |-> promoted.type],
           !.moveHistory = Append(@, [notation |-> moveNotation,
                                      from     |-> <<fromRow, fromCol>>,
                                      to       |-> <<toRow, toCol>>,
                                      piece    |-> promoted.type,
                                      captured |-> IF capturedPiece # Null
                                                   THEN capturedPiece.type
                                                   ELSE "NONE"]),
           !.currentPlayer = OppositeColor(@),
           !.fullMoveNumber = NextFullMoveNumber(g)]

(* makeMove, line 163: the default value of the parameter promotionPiece.  *)
PromotionArgument(promotionPiece) ==
    IF promotionPiece = Undefined THEN "QUEEN" ELSE promotionPiece

(* makeMove: its return value (ok) and the game it leaves (game).          *)
makeMove(g, fromRow, fromCol, toRow, toCol, promotionPiece) ==
    LET piece == getPieceAt(g, fromRow, fromCol)
    IN  IF piece = Null
        THEN [ok |-> FALSE, game |-> g]
        ELSE LET run == isLegalMoveRun(g, fromRow, fromCol, toRow, toCol)
             IN  IF ~run.result
                 THEN [ok |-> FALSE, game |-> run.game]
                 ELSE [ok   |-> TRUE,
                       game |-> updateGameState(
                                    ApplyMove(run.game, run.game.board[fromRow][fromCol],
                                              fromRow, fromCol, toRow, toCol,
                                              PromotionArgument(promotionPiece)))]

(* reset without line 479: the captured pieces are kept.                   *)
resetKeepingCaptured(g) ==
    [g EXCEPT !.board = initializeBoard,
              !.currentPlayer = "WHITE",
              !.gameState = "playing",
              !.moveHistory = << >>,
              !.lastMove = NullMove,
              !.kingPositions = [WHITE |-> <<7, 4>>, BLACK |-> <<0, 4>>],
              !.enPassantTarget = NullSquare,
              !.halfMoveClock = 0,
              !.fullMoveNumber = 1]

reset(g) ==
    [g EXCEPT !.board = initializeBoard,
              !.currentPlayer = "WHITE",
              !.gameState = "playing",
              !.moveHistory = << >>,
              !.capturedPieces = [WHITE |-> << >>, BLACK |-> << >>],
              !.lastMove = NullMove,
              !.kingPositions = [WHITE |-> <<7, 4>>, BLACK |-> <<0, 4>>],
              !.enPassantTarget = NullSquare,
              !.halfMoveClock = 0,
              !.fullMoveNumber = 1]

(* clone without line 335: the copy is a new piece, which has not moved.   *)
cloneUnmoved(piece) ==
    ChessPiece(piece.type, piece.color, piece.row, piece.col)

(* ChessPiece.clone.                                                       *)
clone(piece) ==
    [ChessPiece(piece.type, piece.color, piece.row, piece.col) EXCEPT !.hasMoved = piece.hasMoved]

(* The board loops of the three cloneGame methods: every piece of board is *)
(* cloned onto its square of cloned, the board of a new ChessGame; a       *)
(* square of cloned whose square of board is empty is not assigned.        *)
CloneBoard(cloned, board) ==
    [row \in Rows |-> [col \in Rows |->
        IF board[row][col] # Null THEN clone(board[row][col]) ELSE cloned[row][col]]]

(* The containers of a game that its makeMove writes in place.  A copy     *)
(* that refers to one of them instead of copying it sees those writes, and *)
(* the game sees the copy's.                                               *)
Containers == {"board", "kingPositions", "capturedPieces", "moveHistory"}

(* cloneGame with lines 404-407 replaced by an assignment of the object:   *)
(* the copy refers to the capturedPieces of the game.                      *)
cloneGameSharingCaptured(g) ==
    [game   |-> [NewGame EXCEPT
                   !.board = CloneBoard(@, g.board),
                   !.currentPlayer = g.currentPlayer,
                   !.gameState = g.gameState,
                   !.lastMove = g.lastMove,
                   !.kingPositions = g.kingPositions,
                   !.enPassantTarget = g.enPassantTarget,
                   !.halfMoveClock = g.halfMoveClock,
                   !.fullMoveNumber = g.fullMoveNumber,
                   !.capturedPieces = g.capturedPieces,
                   !.moveHistory = g.moveHistory],
     shares |-> {"capturedPieces"}]

(* ChessGame.cloneGame: the copy (game) and the containers of g it refers  *)
(* to (shares).  kingPositions, the two capturedPieces lists and           *)
(* moveHistory are new objects with the elements of the old ones; the      *)
(* elements themselves (squares, captured pieces) are never written.       *)
cloneGame(g) ==
    [game   |-> [NewGame EXCEPT
                   !.board = CloneBoard(@, g.board),
                   !.currentPlayer = g.currentPlayer,
                   !.gameState = g.gameState,
                   !.lastMove = g.lastMove,
                   !.kingPositions = g.kingPositions,
                   !.enPassantTarget = g.enPassantTarget,
                   !.halfMoveClock = g.halfMoveClock,
                   !.fullMoveNumber = g.fullMoveNumber,
                   !.capturedPieces = g.capturedPieces,
                   !.moveHistory = g.moveHistory],
     shares |-> {}]

(* ChessAI.cloneGame: moveHistory, capturedPieces and lastMove stay those  *)
(* of the new ChessGame.  enPassantTarget is the game's own array, which   *)
(* no code writes in place.                                                *)
ChessAI_cloneGame(g) ==
    [game   |-> [NewGame EXCEPT
                   !.board = CloneBoard(@, g.board),
                   !.currentPlayer = g.currentPlayer,
                   !.gameState = g.gameState,
                   !.kingPositions = g.kingPositions,
                   !.enPassantTarget = g.enPassantTarget,
                   !.halfMoveClock = g.halfMoveClock,
                   !.fullMoveNumber = g.fullMoveNumber],
     shares |-> {}]

(* EnhancedChessAI.cloneGame, the same statements as ChessAI.cloneGame.    *)
EnhancedChessAI_cloneGame(g) ==
    [game   |-> [NewGame EXCEPT
                   !.board = CloneBoard(@, g.board),
                   !.currentPlayer = g.currentPlayer,
                   !.gameState = g.gameState,
                   !.kingPositions = g.kingPositions,
                   !.enPassantTarget = g.enPassantTarget,
                   !.halfMoveClock = g.halfMoveClock,
                   !.fullMoveNumber = g.fullMoveNumber],
     shares |-> {}]

(* The game target after a makeMove on a game that shares containers with  *)
(* it and is left as written.                                              *)
WriteThrough(target, shares, written) ==
    [target EXCEPT
       !.board = IF "board" \in shares THEN written.board ELSE @,
       !.kingPositions = IF "kingPositions" \in shares THEN written.kingPositions ELSE @,
       !.capturedPieces = IF "capturedPieces" \in shares THEN written.capturedPieces ELSE @,
       !.moveHistory = IF "moveHistory" \in shares THEN written.moveHistory ELSE @]

----------------------------------------------------------------------------
(* js/chess-ai-enhanced.js : class EnhancedChessAI, and js/chess-ai.js :   *)
(* class ChessAI.  A move of the engines is a record with the fields from, *)
(* to, piece and captured, NoMove for null.  The scores the searches       *)
(* compute below the root are not modelled: the move a root search         *)
(* settles on is an argument of the operators, taken among the moves the  *)
(* root loop can settle on.                                                *)

NoMove == [from |-> NullSquare, to |-> NullSquare, piece |-> "NONE", captured |-> "NONE"]

(* ChessGame.getPieces, lines 436-447.                                     *)
getPieces(g, color) ==
    LET Mine(sq) == g.board[sq[1]][sq[2]] # Null /\ g.board[sq[1]][sq[2]].color = color
        squares == SelectSeq(AllSquares, Mine)
    IN  [i \in 1 .. Len(squares) |-> g.board[squares[i][1]][squares[i][2]]]

(* The loop of getLegalMoves, lines 87-91, with the game each call of      *)
(* isLegalMove leaves handed to the next: LegalMovesLoop is the loop from  *)
(* its i-th round on, LegalMovesStep the rest of a round after the call of *)
(* isLegalMove, whose result is run.  The result of the call is read       *)
(* before the loop goes on, which keeps the evaluation shallow.            *)
RECURSIVE LegalMovesLoop(_, _, _, _, _)
RECURSIVE LegalMovesStep(_, _, _, _, _)
LegalMovesStep(run, piece, possibleMoves, i, legalMoves) ==
    IF run.result
    THEN LegalMovesLoop(run.game, piece, possibleMoves, i + 1,
                        Append(legalMoves, possibleMoves[i]))
    ELSE LegalMovesLoop(run.game, piece, possibleMoves, i + 1, legalMoves)

LegalMovesLoop(g, piece, possibleMoves, i, legalMoves) ==
    IF i > Len(possibleMoves)
    THEN [moves |-> legalMoves, game |-> g]
    ELSE LegalMovesStep(isLegalMoveRun(g, piece.row, piece.col,
                                       possibleMoves[i][1], possibleMoves[i][2]),
                        piece, possibleMoves, i, legalMoves)

(* getLegalMoves: its return value (moves) and the game it leaves (game).  *)
getLegalMovesRun(g, piece) ==
    LegalMovesLoop(g, piece, getPossibleMoves(piece, g.board, GameContext(g, piece)),
                   1, << >>)

(* The moves getAllPossibleMoves pushes for a piece: run is what           *)
(* getLegalMoves returned for it and the game it left.                     *)
MovesOfPiece(piece, run) ==
    [k \in 1 .. Len(run.moves) |->
        [from     |-> <<piece.row, piece.col>>,
         to       |-> run.moves[k],
         piece    |-> piece.type,
         captured |-> getPieceAt(run.game, run.moves[k][1], run.moves[k][2]).type]]

(* The loop of getAllPossibleMoves over the pieces of the side to move:    *)
(* AllMovesLoop is the loop from its i-th round on, AllMovesStep the rest  *)
(* of a round after the call of getLegalMoves, whose result is run.        *)
RECURSIVE AllMovesLoop(_, _, _, _)
RECURSIVE AllMovesStep(_, _, _, _)
AllMovesStep(run, pieces, i, moves) ==
    IF Len(run.moves) = 0
    THEN AllMovesLoop(run.game, pieces, i + 1, moves)
    ELSE AllMovesLoop(run.game, pieces, i + 1, moves \o MovesOfPiece(pieces[i], run))

AllMovesLoop(g, pieces, i, moves) ==
    IF i > Len(pieces)
    THEN [moves |-> moves, game |-> g]
    ELSE AllMovesStep(getLegalMovesRun(g, pieces[i]), pieces, i, moves)

(* getAllPossibleMoves of both engines: its return value (moves) and the   *)
(* game it leaves (game).                                                  *)
getAllPossibleMovesRun(g) ==
    AllMovesLoop(g, getPieces(g, g.currentPlayer), 1, << >>)

(* The difficulty levels of EnhancedChessAI.                               *)
Difficulties == 1 .. 5

(* EnhancedChessAI.getDepthFromDifficulty.                                 *)
getDepthFromDifficulty(difficulty) ==
    CASE difficulty = 1 -> 3
      [] difficulty = 2 -> 4
      [] difficulty = 3 -> 5
      [] difficulty = 4 -> 6
      [] difficulty = 5 -> 8
      [] OTHER          -> 4

(* EnhancedChessAI.setDifficultyParameters: timeLimit in milliseconds,     *)
(* randomnessFactor and moveRandomness in hundredths.                      *)
setDifficultyParameters(difficulty) ==
    CASE difficulty = 1 -> [timeLimit |-> 1000, randomnessFactor |-> 25,
                            moveRandomness |-> 30, useOpeningBook |-> FALSE]
      [] difficulty = 2 -> [timeLimit |-> 2000, randomnessFactor |-> 10,
                            moveRandomness |-> 15, useOpeningBook |-> TRUE]
      [] difficulty = 3 -> [timeLimit |-> 3000, randomnessFactor |-> 5,
                            moveRandomness |-> 8, useOpeningBook |-> TRUE]
      [] difficulty = 4 -> [timeLimit |-> 5000, randomnessFactor |-> 2,
                            moveRandomness |-> 3, useOpeningBook |-> TRUE]
      [] difficulty = 5 -> [timeLimit |-> 8000, randomnessFactor |-> 0,
                            moveRandomness |-> 0, useOpeningBook |-> TRUE]
      [] OTHER          -> [timeLimit |-> 3000, randomnessFactor |-> 10,
                            moveRandomness |-> 15, useOpeningBook |-> TRUE]

(* The EnhancedChessAI object: the fields getBestMove reads and writes.    *)
(* The tables of the search are not modelled.                              *)
EnhancedChessAI(difficulty) ==
    [difficulty |-> difficulty,
     maxDepth   |-> getDepthFromDifficulty(difficulty),
     moveCount  |-> 0,
     parameters |-> setDifficultyParameters(difficulty)]

(* A move in the notation of the opening book, four characters.            *)
SquareNotation(from, to) ==
    <<FileChar[from[2] + 1], RankChar[8 - from[1]], FileChar[to[2] + 1], RankChar[8 - to[1]]>>

(* The index of a character in a sequence of characters, 0 when absent.    *)
IndexOf(chars, ch) ==
    IF \E i \in 1 .. Len(chars) : chars[i] = ch
    THEN CHOOSE i \in 1 .. Len(chars) : chars[i] = ch
    ELSE 0

(* initializeOpeningBook: each key is the list of the moves played, each   *)
(* value the list of the moves of the book.                                *)
initializeOpeningBook ==
    LET m(a, b, c, d) == <<a, b, c, d>>
        e2e4 == m("e", "2", "e", "4")   e7e5 == m("e", "7", "e", "5")
        g1f3 == m("g", "1", "f", "3")   b8c6 == m("b", "8", "c", "6")
        d2d4 == m("d", "2", "d", "4")   c2c4 == m("c", "2", "c", "4")
        g8f6 == m("g", "8", "f", "6")   b1c3 == m("b", "1", "c", "3")
        e7e6 == m("e", "7", "e", "6")   c7c5 == m("c", "7", "c", "5")
        c7c6 == m("c", "7", "c", "6")   d7d5 == m("d", "7", "d", "5")
        f7f5 == m("f", "7", "f", "5")
    IN  << [key |-> <<e2e4, e7e5, g1f3, b8c6, m("f", "1", "c", "4")>>,
            moves |-> <<m("b", "7", "b", "5"), m("d", "7", "d", "6"), f7f5, g8f6>>],
           [key |-> <<e2e4, c7c5>>, moves |-> <<g1f3, d2d4, b1c3>>],
           [key |-> <<e2e4, e7e6>>, moves |-> <<d2d4, g1f3>>],
           [key |-> <<d2d4, d7d5, c2c4>>,
            moves |-> <<e7e6, c7c6, m("d", "5", "c", "4")>>],
           [key |-> <<d2d4, g8f6, c2c4, m("g", "7", "g", "6")>>, moves |-> <<b1c3, g1f3>>],
           [key |-> <<e2e4, e7e5, g1f3, b8c6, m("f", "1", "b", "5")>>,
            moves |-> <<m("a", "7", "a", "6"), g8f6, f7f5>>],
           [key |-> <<c2c4>>, moves |-> <<e7e5, g8f6, c7c5, e7e6>>],
           [key |-> <<e2e4, c7c6>>, moves |-> <<d2d4, b1c3, g1f3>>] >>

(* this.openingBook[moveHistory]: the moves under a key, none when the     *)
(* book has no such key.                                                   *)
BookMoves(key) ==
    LET Under(entry) == entry.key = key
        entries == SelectSeq(initializeOpeningBook, Under)
    IN  IF entries = << >> THEN << >> ELSE entries[1].moves

(* The values Math.random returns: the draw r stands for r / RandomLevels. *)
RandomLevels == 2

RandomDraws == 0 .. RandomLevels - 1

(* Math.floor(Math.random() * n) for the draw r.                           *)
RandomIndex(r, n) == (r * n) \div RandomLevels

(* getOpeningBookMove reading the rank digit of a notation as the row:    *)
(* without the 8 - of lines 508-509.                                       *)
getOpeningBookMoveUnflipped(g, r) ==
    LET moveHistory == [i \in 1 .. Len(g.moveHistory) |->
                           SquareNotation(g.moveHistory[i].from, g.moveHistory[i].to)]
        bookMoves == BookMoves(moveHistory)
    IN  IF bookMoves # << >>
        THEN LET moveNotation == bookMoves[RandomIndex(r, Len(bookMoves)) + 1]
                 from == <<IndexOf(RankChar, moveNotation[2]) - 1,
                           IndexOf(FileChar, moveNotation[1]) - 1>>
                 to == <<IndexOf(RankChar, moveNotation[4]) - 1,
                         IndexOf(FileChar, moveNotation[3]) - 1>>
                 piece == getPieceAt(g, from[1], from[2])
             IN  [move |-> [from |-> from, to |-> to,
                            piece |-> IF piece = Null THEN Undefined ELSE piece.type],
                  draws |-> 1]
        ELSE [move |-> NoMove, draws |-> 0]

(* EnhancedChessAI.getOpeningBookMove: the move returned (NoMove for       *)
(* null) and the number of calls of Math.random made.  The game is only    *)
(* read.  r is what Math.random returns when it is called.                 *)
getOpeningBookMove(g, r) ==
    LET moveHistory == [i \in 1 .. Len(g.moveHistory) |->
                           SquareNotation(g.moveHistory[i].from, g.moveHistory[i].to)]
        bookMoves == BookMoves(moveHistory)
    IN  IF bookMoves # << >>
        THEN LET moveNotation == bookMoves[RandomIndex(r, Len(bookMoves)) + 1]
                 from == <<8 - IndexOf(RankChar, moveNotation[2]),
                           IndexOf(FileChar, moveNotation[1]) - 1>>
                 to == <<8 - IndexOf(RankChar, moveNotation[4]),
                         IndexOf(FileChar, moveNotation[3]) - 1>>
                 piece == getPieceAt(g, from[1], from[2])
             IN  [move |-> [from |-> from, to |-> to,
                            piece |-> IF piece = Null THEN Undefined ELSE piece.type],
                  draws |-> 1]
        ELSE [move |-> NoMove, draws |-> 0]

(* What makeMove returns, lines 160-175: true when there is a piece on the *)
(* square it is moved from and isLegalMove accepts the move.               *)
makeMoveReturns(g, fromRow, fromCol, toRow, toCol) ==
    /\ getPieceAt(g, fromRow, fromCol) # Null
    /\ isLegalMove(g, fromRow, fromCol, toRow, toCol)

(* The moves of a list that makeMove accepts on a clone of the game: the   *)
(* moves the loop of a root search scores.                                 *)
ScoredMoves(moves, cloned) ==
    SelectSeq(moves, LAMBDA move : makeMoveReturns(cloned, move.from[1], move.from[2],
                                                   move.to[1], move.to[2]))

(* EnhancedChessAI.alphaBetaRoot: the moves it can return for a list of    *)
(* moves.  bestMove starts as the first move of the ordered list and is    *)
(* replaced by every scored move that has the best score so far, so a      *)
(* scored move is returned when there is one and any move can be the first *)
(* of the ordered list.                                                    *)
BestOfScored(scored, moves) ==
    IF scored # << >> THEN scored ELSE moves

alphaBetaRootMoves(g, moves) ==
    BestOfScored(ScoredMoves(moves, EnhancedChessAI_cloneGame(g).game), moves)

(* The depths whose iteration can be the one during or right after which   *)
(* the time limit is found passed at line 157; 0 when it never is.         *)
MaxExpiryDepth == 2

ExpiryPoints == 0 .. MaxExpiryDepth

(* The moves among which a root search settles: the first MaxPick + 1 of   *)
(* those it can return.                                                    *)
MaxPick == 1

Picks == 0 .. MaxPick

(* What a call of getBestMove or getHint depends on besides the engine and *)
(* the game: random is what the calls of Math.random return, in order;     *)
(* expiry is the depth at whose iteration line 157 finds the time limit    *)
(* passed (0: at none); pick chooses the move the last root search that    *)
(* counts returns.                                                         *)
Chances == [random : RandomDraws \X RandomDraws, expiry : ExpiryPoints, pick : Picks]

(* EnhancedChessAI.getBestMove after this.moveCount++, for each of the     *)
(* chances: all is what getAllPossibleMoves(game) returns and the game it  *)
(* leaves, found the moves alphaBetaRoot can return.                       *)
BestMoveAmong(counted, g, all, found) ==
    [c \in Chances |->
      LET book == IF counted.parameters.useOpeningBook /\ counted.moveCount <= 10
                  THEN getOpeningBookMove(g, c.random[1])
                  ELSE [move |-> NoMove, draws |-> 0]
          drawn == counted.parameters.moveRandomness > 0
          isRandom == drawn /\ c.random[book.draws + 1] * 100
                                  < counted.parameters.moveRandomness * RandomLevels
          afterTest == book.draws + (IF drawn THEN 1 ELSE 0)
          completed == IF c.expiry = 0 \/ c.expiry > counted.maxDepth
                       THEN counted.maxDepth
                       ELSE c.expiry - 1
      IN  IF book.move # NoMove
          THEN [move |-> book.move, game |-> g, ai |-> counted,
                draws |-> book.draws, searched |-> FALSE]
          ELSE IF isRandom /\ Len(all.moves) > 0
          THEN [move |-> all.moves[RandomIndex(c.random[afterTest + 1],
                                 IF Len(all.moves) < 3 THEN Len(all.moves) ELSE 3) + 1],
                game |-> all.game, ai |-> counted, draws |-> afterTest + 1,
                searched |-> FALSE]
          ELSE [move |-> IF Len(all.moves) = 0 \/ completed = 0
                         THEN NoMove
                         ELSE found[(c.pick % Len(found)) + 1],
                game |-> all.game, ai |-> counted, draws |-> afterTest,
                searched |-> TRUE]]

(* The root search of getBestMove on the game getAllPossibleMoves left.    *)
BestMoveOf(counted, g, all) ==
    BestMoveAmong(counted, g, all, alphaBetaRootMoves(all.game, all.moves))

(* EnhancedChessAI.getBestMove, for each of the chances: the move returned *)
(* (NoMove for null), the game and the engine it leaves, the number of     *)
(* calls of Math.random made and whether the iterative deepening was run.  *)
EnhancedChessAI_getBestMove(engine, g) ==
    BestMoveOf([engine EXCEPT !.moveCount = @ + 1], g, getAllPossibleMovesRun(g))

(* The last assignment of getHint, which puts the side to move back:      *)
(* runs is what getBestMove did and returned for each of the chances.      *)
RestorePlayer(runs, originalPlayer) ==
    [c \in Chances |-> [runs[c] EXCEPT !.game.currentPlayer = originalPlayer]]

(* EnhancedChessAI.getHint without the assignment of line 527 that puts    *)
(* the side to move back.                                                  *)
EnhancedChessAI_getHintKeepingWhite(engine, g) ==
    EnhancedChessAI_getBestMove(engine, [g EXCEPT !.currentPlayer = "WHITE"])

(* EnhancedChessAI.getHint.                                                *)
EnhancedChessAI_getHint(engine, g) ==
    RestorePlayer(EnhancedChessAI_getBestMove(engine, [g EXCEPT !.currentPlayer = "WHITE"]),
                  g.currentPlayer)

(* The test of ChessAI.getBestMove, lines 46-47, on the result of makeMove *)
(* on a clone.                                                             *)
OutOfCheck(run, aiColor) ==
    run.ok /\ ~isInCheck(run.game, aiColor)

(* The loop of ChessAI.getBestMove, lines 42-57, over the moves of the     *)
(* side in check: the moves after which a clone made by game.cloneGame is  *)
(* not in check.                                                           *)
MovesOutOfCheck(g, moves, aiColor) ==
    SelectSeq(moves, LAMBDA move :
                         OutOfCheck(makeMove(cloneGame(g).game, move.from[1], move.from[2],
                                             move.to[1], move.to[2], Undefined), aiColor))

(* ChessAI.minimax at the root: the moves it can return.  bestMove starts  *)
(* null and becomes every scored move that has the best score so far.      *)
minimaxMoves(g, moves) ==
    IF g.gameState # "playing" THEN << >>
    ELSE ScoredMoves(moves, ChessAI_cloneGame(g).game)

(* ChessAI.getBestMove for each of the chances: allMoves are the moves     *)
(* found to get out of check, found the moves minimax can return, g the    *)
(* game left.                                                              *)
BasicBestMoveAmong(g, allMoves, found) ==
    [c \in Chances |->
      IF Len(allMoves) > 0
      THEN [move |-> allMoves[RandomIndex(c.random[1], Len(allMoves)) + 1],
            game |-> g, draws |-> 1, searched |-> FALSE]
      ELSE [move |-> IF found = << >> THEN NoMove
                     ELSE found[(c.pick % Len(found)) + 1],
            game |-> g, draws |-> 0, searched |-> TRUE]]

(* ChessAI.getBestMove after the moves of the side to move have been       *)
(* collected.                                                              *)
BasicBestMoveOf(inCheck, aiColor, all) ==
    BasicBestMoveAmong(all.game,
                       IF inCheck THEN MovesOutOfCheck(all.game, all.moves, aiColor)
                       ELSE << >>,
                       minimaxMoves(all.game, all.moves))

(* ChessAI.getBestMove, with the same result but the engine.  ChessAI has  *)
(* no time limit.                                                          *)
ChessAI_getBestMove(g) ==
    BasicBestMoveOf(isInCheck(g, g.currentPlayer), g.currentPlayer,
                    getAllPossibleMovesRun(g))

(* ChessAI.getHint.                                                        *)
ChessAI_getHint(g) ==
    RestorePlayer(ChessAI_getBestMove([g EXCEPT !.currentPlayer = "WHITE"]), g.currentPlayer)

----------------------------------------------------------------------------
(***************************************************************************)
(* The searches of the two engines.  A search reads of a game its status,  *)
(* the side to move, whether that side is in check, the moves of           *)
(* getAllPossibleMoves with what each captures, the game each move leads   *)
(* to, the hash of the position and the value of the evaluation.  A game   *)
(* is modelled here by that much: a position is a record                   *)
(*   gameState, currentPlayer, inCheck, as in ChessGame;                   *)
(*   score: the value the evaluation computes from the board, positive     *)
(*          when White is better, before the terminal statuses and the     *)
(*          side to move are taken into account;                           *)
(*   moves: the list of getAllPossibleMoves, each move with                *)
(*          key: its from and to squares, what movesEqual and moveKey read;*)
(*          to: the position of the clone after makeMove;                  *)
(*          captured: whether the to-square holds a piece;                 *)
(*          mvvlva: capturedValue - attackerValue / 10 of a capture;       *)
(*          bonus: the terms of the ordering computed from the squares     *)
(*                 and the piece (centre, pawn advancement, castling);     *)
(*   nullGame: the position of the clone with the other side to move.      *)
(* A tree is a sequence of positions, and a position is named by its       *)
(* index, which is also its hash: two games with the same board, side to   *)
(* move and en passant square are one position.  makeMove accepts every    *)
(* move of getAllPossibleMoves (C28), so the loops never skip a move.      *)
(***************************************************************************)

(* Number.POSITIVE_INFINITY; -Infinity is its negation.                    *)
Infinity == 1000000

Max(a, b) == IF a > b THEN a ELSE b

Min(a, b) == IF a < b THEN a ELSE b

(* x + 1 and x - 1 of JavaScript numbers: an infinite x is left as it is.  *)
PlusOne(x) == IF x = Infinity \/ x = -Infinity THEN x ELSE x + 1

MinusOne(x) == IF x = Infinity \/ x = -Infinity THEN x ELSE x - 1

(* Array.prototype.sort with the comparison b.score - a.score, for a list  *)
(* of records with a score: the records by decreasing score, records of    *)
(* equal score in the order they had.                                      *)
RECURSIVE InsertByScore(_, _)
InsertByScore(sorted, move) ==
    IF sorted = << >> THEN <<move>>
    ELSE IF sorted[Len(sorted)].score >= move.score
    THEN Append(sorted, move)
    ELSE Append(InsertByScore(SubSeq(sorted, 1, Len(sorted) - 1), move),
                sorted[Len(sorted)])

RECURSIVE SortByScore(_)
SortByScore(moves) ==
    IF moves = << >> THEN << >>
    ELSE InsertByScore(SortByScore(SubSeq(moves, 1, Len(moves) - 1)), moves[Len(moves)])

(* The moves of a list of records [move, score].                           *)
MovesOf(scored) == [i \in 1 .. Len(scored) |-> scored[i].move]

(* ChessEvaluation.evaluatePositionAdvanced of a position.                 *)
evaluatePositionAdvanced(position) ==
    IF position.gameState = "checkmate"
    THEN IF position.currentPlayer = "BLACK" THEN 30000 ELSE -30000
    ELSE IF position.gameState = "stalemate" \/ position.gameState = "draw"
    THEN 0
    ELSE IF position.currentPlayer = "WHITE" THEN position.score ELSE -position.score

(* ChessAI.evaluatePosition of a position, for an engine of difficulty 3   *)
(* or more, which adds no random term.                                     *)
evaluatePosition(position) ==
    IF position.gameState = "checkmate"
    THEN IF position.currentPlayer = "BLACK" THEN 20000 ELSE -20000
    ELSE IF position.gameState = "stalemate" \/ position.gameState = "draw"
    THEN 0
    ELSE position.score

(* EnhancedChessAI.getCaptureMoves: the legal moves onto a square that     *)
(* holds a piece.                                                          *)
getCaptureMoves(position) == SelectSeq(position.moves, LAMBDA move : move.captured)

(* EnhancedChessAI.orderCapturesByMVVLVA.                                  *)
orderCapturesByMVVLVA(moves) ==
    MovesOf(SortByScore([i \in 1 .. Len(moves) |->
                            [move |-> moves[i], score |-> moves[i].mvvlva]]))

(* quiescenceRun without line 322: the captures are searched however deep  *)
(* the call is.                                                            *)
RECURSIVE quiescenceRunUnlimited(_, _, _, _, _)
RECURSIVE quiescenceLoop(_, _, _, _, _, _, _)
quiescenceRunUnlimited(tree, n, alpha, beta, depth) ==
    IF evaluatePositionAdvanced(tree[n]) >= beta
    THEN [score |-> beta,
          calls |-> << [node |-> n, alpha |-> alpha, beta |-> beta, depth |-> depth,
                        score |-> beta] >>]
    ELSE quiescenceLoop(tree, orderCapturesByMVVLVA(getCaptureMoves(tree[n])), 1,
                        Max(alpha, evaluatePositionAdvanced(tree[n])), beta, depth,
                        [node |-> n, alpha |-> alpha, beta |-> beta, depth |-> depth,
                         calls |-> << >>])

(* EnhancedChessAI.quiescenceSearch(game, alpha, beta, depth), the game    *)
(* being the position n of the tree: the value it returns (score) and the  *)
(* calls of quiescenceSearch it has made, itself first and then the calls  *)
(* of its loop in the order they were made, each with its arguments and    *)
(* the value it returned (calls).  quiescenceLoop is the loop from the     *)
(* i-th capture on, called the arguments of the call the loop belongs to   *)
(* with the calls made so far, and quiescenceStep the rest of a round      *)
(* after the recursive call, which is made on moves[i].to, the position of *)
(* the clone after makeMove.                                               *)
RECURSIVE quiescenceRun(_, _, _, _, _)
RECURSIVE quiescenceStep(_, _, _, _, _, _, _, _)
quiescenceRun(tree, n, alpha, beta, depth) ==
    IF evaluatePositionAdvanced(tree[n]) >= beta
    THEN [score |-> beta,
          calls |-> << [node |-> n, alpha |-> alpha, beta |-> beta, depth |-> depth,
                        score |-> beta] >>]
    ELSE IF depth > 4
    THEN [score |-> evaluatePositionAdvanced(tree[n]),
          calls |-> << [node |-> n, alpha |-> alpha, beta |-> beta, depth |-> depth,
                        score |-> evaluatePositionAdvanced(tree[n])] >>]
    ELSE quiescenceLoop(tree, orderCapturesByMVVLVA(getCaptureMoves(tree[n])), 1,
                        Max(alpha, evaluatePositionAdvanced(tree[n])), beta, depth,
                        [node |-> n, alpha |-> alpha, beta |-> beta, depth |-> depth,
                         calls |-> << >>])

(* The result of a call that returns score.                                *)
quiescenceReturn(called, score) ==
    [score |-> score,
     calls |-> << [node |-> called.node, alpha |-> called.alpha, beta |-> called.beta,
                   depth |-> called.depth, score |-> score] >> \o called.calls]

quiescenceStep(tree, moves, i, alpha, beta, called, score, calls) ==
    IF score >= beta
    THEN quiescenceReturn([called EXCEPT !.calls = calls], beta)
    ELSE quiescenceLoop(tree, moves, i + 1, Max(alpha, score), beta, called.depth,
                        [called EXCEPT !.calls = calls])

quiescenceLoop(tree, moves, i, alpha, beta, depth, called) ==
    IF i > Len(moves)
    THEN quiescenceReturn(called, alpha)
    ELSE LET run == quiescenceRun(tree, moves[i].to, -beta, -alpha, depth + 1)
         IN  quiescenceStep(tree, moves, i, alpha, beta, called, -run.score,
                            called.calls \o run.calls)

quiescenceSearch(tree, n, alpha, beta, depth) ==
    quiescenceRun(tree, n, alpha, beta, depth).score

(* The tables of an engine: maxDepth, transpositionTable (for each hash    *)
(* the entry stored, NoEntry when the Map has none), killerMoves (for      *)
(* each index of the array the list of moves), historyTable (for each      *)
(* moveKey the number stored, 0 when the object has none), and events,     *)
(* the record of what the searches run so far have done: the probes that   *)
(* found an entry, the nodes returned as leaves, the entries stored, the   *)
(* moves put on a killer list and the values returned.                     *)
NoEntry == [score |-> 0, depth |-> -1, flag |-> "NONE", move |-> NoMove]

(* The keys of the moves of a tree.                                        *)
MoveKeys(tree) ==
    UNION {{tree[n].moves[i].key : i \in 1 .. Len(tree[n].moves)} : n \in 1 .. Len(tree)}

(* The tables a constructor makes, for a killerMoves array of the given    *)
(* length.                                                                 *)
NewTables(tree, maxDepth, killerLength) ==
    [maxDepth           |-> maxDepth,
     transpositionTable |-> [n \in 1 .. Len(tree) |-> NoEntry],
     killerMoves        |-> [d \in 0 .. killerLength - 1 |-> << >>],
     historyTable       |-> [key \in MoveKeys(tree) |-> 0],
     events             |-> {}]

Noted(tables, event) == [tables EXCEPT !.events = @ \cup {event}]

(* The probe of alphaBeta, lines 222-228, without the test of the depth    *)
(* of the entry.                                                           *)
probeAnyDepth(ttEntry, depth, alpha, beta) ==
    IF ttEntry # NoEntry
    THEN IF ttEntry.flag = "EXACT"
         THEN [returns |-> TRUE, score |-> ttEntry.score, alpha |-> alpha, beta |-> beta]
         ELSE LET raised == IF ttEntry.flag = "LOWERBOUND"
                            THEN Max(alpha, ttEntry.score) ELSE alpha
                  lowered == IF ttEntry.flag = "UPPERBOUND"
                             THEN Min(beta, ttEntry.score) ELSE beta
              IN  [returns |-> raised >= lowered, score |-> ttEntry.score,
                   alpha |-> raised, beta |-> lowered]
    ELSE [returns |-> FALSE, score |-> 0, alpha |-> alpha, beta |-> beta]

(* The probe of alphaBeta, lines 222-228: whether it returns the score of  *)
(* the entry, and the window it leaves.                                    *)
probe(ttEntry, depth, alpha, beta) ==
    IF ttEntry # NoEntry /\ ttEntry.depth >= depth
    THEN IF ttEntry.flag = "EXACT"
         THEN [returns |-> TRUE, score |-> ttEntry.score, alpha |-> alpha, beta |-> beta]
         ELSE LET raised == IF ttEntry.flag = "LOWERBOUND"
                            THEN Max(alpha, ttEntry.score) ELSE alpha
                  lowered == IF ttEntry.flag = "UPPERBOUND"
                             THEN Min(beta, ttEntry.score) ELSE beta
              IN  [returns |-> raised >= lowered, score |-> ttEntry.score,
                   alpha |-> raised, beta |-> lowered]
    ELSE [returns |-> FALSE, score |-> 0, alpha |-> alpha, beta |-> beta]

(* The score orderMovesAdvanced gives a move, lines 380-428.  pvTable is   *)
(* never written, so its term is 0.                                        *)
AdvancedScore(tables, move, depth) ==
      (IF move.captured THEN 1000 + move.mvvlva ELSE 0)
    + (IF depth \in DOMAIN tables.killerMoves
          /\ \E k \in 1 .. Len(tables.killerMoves[depth]) :
                tables.killerMoves[depth][k].key = move.key
       THEN 900 ELSE 0)
    + Min(tables.historyTable[move.key], 800)
    + move.bonus

(* EnhancedChessAI.orderMovesAdvanced.                                     *)
orderMovesAdvanced(tables, moves, depth) ==
    MovesOf(SortByScore([i \in 1 .. Len(moves) |->
                            [move |-> moves[i],
                             score |-> AdvancedScore(tables, moves[i], depth)]]))

(* Lines 287-290: the killer list of a depth after a move is put on it.    *)
KillersWith(killers, move) == SubSeq(<<move>> \o killers, 1, Min(2, Len(killers) + 1))

(* Lines 281-295 for a move whose score is above alpha: the killer list    *)
(* and the history table are updated.                                      *)
RaisedAlpha(tables, move, depth, score, beta) ==
    LET killer == ~move.captured /\ depth \in DOMAIN tables.killerMoves
        withKiller == IF killer
                      THEN [tables EXCEPT !.killerMoves[depth] = KillersWith(@, move),
                                          !.events = @ \cup
                                              {[kind |-> "killer", depth |-> depth,
                                                move |-> move, cutoff |-> score >= beta]}]
                      ELSE tables
    IN  [withKiller EXCEPT !.historyTable[move.key] = @ + depth * depth]

(* Lines 304-311 of alphaBeta: the entry is stored and bestScore returned. *)
alphaBetaStore(tables, n, depth, bestScore, flag, raised, cutoff) ==
    [score |-> bestScore,
     tables |-> [tables EXCEPT
         !.transpositionTable[n] =
             [score |-> bestScore, depth |-> depth, flag |-> flag, move |-> NoMove],
         !.events = @ \cup {[kind |-> "store", node |-> n, depth |-> depth,
                             flag |-> flag, raised |-> raised, cutoff |-> cutoff]}]]

(* EnhancedChessAI.alphaBeta(game, depth, alpha, beta), the game being the *)
(* position n of the tree: the score returned and the tables left.  The    *)
(* argument isMaximizing is never read.  alphaBetaMoves is the method from *)
(* line 235 on, with the window the probe left, and alphaBetaLoop its loop *)
(* from the i-th move of the ordered list.                                 *)
RECURSIVE alphaBeta(_, _, _, _, _, _)
RECURSIVE alphaBetaMoves(_, _, _, _, _, _)
RECURSIVE alphaBetaLoop(_, _, _, _, _, _, _, _, _, _, _)
RECURSIVE alphaBetaSearched(_, _, _, _, _, _, _)
RECURSIVE alphaBetaResearched(_, _, _, _, _, _)
RECURSIVE alphaBetaScored(_, _, _, _, _, _, _, _, _, _, _)
RECURSIVE alphaBetaNext(_, _, _, _, _, _, _, _, _, _, _)
alphaBeta(tree, tables, n, depth, alpha, beta) ==
    LET ttEntry == tables.transpositionTable[n]
        probed == probe(ttEntry, depth, alpha, beta)
        seen == IF ttEntry = NoEntry THEN tables
                ELSE Noted(tables, [kind |-> "probe", node |-> n, depth |-> depth,
                                    entry |-> ttEntry, alpha |-> alpha, beta |-> beta,
                                    probed |-> probed])
    IN  IF probed.returns
        THEN [score |-> probed.score, tables |-> seen]
        ELSE IF depth = 0 \/ tree[n].gameState # "playing"
        THEN LET score == quiescenceSearch(tree, n, probed.alpha, probed.beta, 0)
             IN  [score |-> score,
                  tables |-> Noted(seen, [kind |-> "leaf", node |-> n, depth |-> depth,
                                          alpha |-> probed.alpha, beta |-> probed.beta,
                                          score |-> score])]
        ELSE alphaBetaMoves(tree, seen, n, depth, probed.alpha, probed.beta)

alphaBetaMoves(tree, tables, n, depth, alpha, beta) ==
    IF Len(tree[n].moves) = 0
    THEN [score |-> IF tree[n].inCheck THEN -30000 + (tables.maxDepth - depth) ELSE 0,
          tables |-> tables]
    ELSE IF depth >= 3 /\ ~tree[n].inCheck
    THEN LET null == alphaBeta(tree, tables, tree[n].nullGame, depth - 3,
                               -beta, PlusOne(-beta))
         IN  IF -null.score >= beta
             THEN [score |-> beta, tables |-> null.tables]
             ELSE alphaBetaLoop(tree, null.tables, n, depth,
                                orderMovesAdvanced(null.tables, tree[n].moves, depth),
                                1, alpha, beta, -Infinity, "UPPERBOUND", FALSE)
    ELSE alphaBetaLoop(tree, tables, n, depth,
                       orderMovesAdvanced(tables, tree[n].moves, depth),
                       1, alpha, beta, -Infinity, "UPPERBOUND", FALSE)

alphaBetaLoop(tree, tables, n, depth, moves, i, alpha, beta, bestScore, flag, raised) ==
    alphaBetaScored(tree, n, depth, moves, i, alpha, beta, bestScore, flag, raised,
                    alphaBetaSearched(tree, tables, moves[i], depth, i, alpha, beta))

alphaBetaSearched(tree, tables, move, depth, i, alpha, beta) ==
    IF i = 1
    THEN alphaBeta(tree, tables, move.to, depth - 1, -beta, -alpha)
    ELSE alphaBetaResearched(tree, move, depth, alpha, beta,
                             alphaBeta(tree, tables, move.to, depth - 1,
                                       MinusOne(-alpha), -alpha))

alphaBetaResearched(tree, move, depth, alpha, beta, first) ==
    IF -first.score > alpha /\ -first.score < beta
    THEN alphaBeta(tree, first.tables, move.to, depth - 1, -beta, -alpha)
    ELSE first

alphaBetaScored(tree, n, depth, moves, i, alpha, beta, bestScore, flag, raised, searched) ==
    IF -searched.score > bestScore /\ -searched.score > alpha
    THEN alphaBetaNext(tree, RaisedAlpha(searched.tables, moves[i], depth,
                                         -searched.score, beta),
                       n, depth, moves, i, -searched.score, beta, -searched.score,
                       "EXACT", TRUE)
    ELSE alphaBetaNext(tree, searched.tables, n, depth, moves, i, alpha, beta,
                       Max(bestScore, -searched.score), flag, raised)

alphaBetaNext(tree, tables, n, depth, moves, i, alpha, beta, bestScore, flag, raised) ==
    IF alpha >= beta
    THEN alphaBetaStore(tables, n, depth, bestScore, "LOWERBOUND", raised, TRUE)
    ELSE IF i = Len(moves)
    THEN alphaBetaStore(tables, n, depth, bestScore, flag, raised, FALSE)
    ELSE alphaBetaLoop(tree, tables, n, depth, moves, i + 1, alpha, beta,
                       bestScore, flag, raised)

(* EnhancedChessAI.alphaBetaRoot(game, depth) when the time limit does not *)
(* pass, and its loop from the i-th move of the ordered list: the score    *)
(* and the move returned (0 for null, else the move) and the tables left.  *)
RECURSIVE alphaBetaRootLoop(_, _, _, _, _, _, _, _)
alphaBetaRootLoop(tree, tables, depth, moves, i, alpha, bestScore, bestMove) ==
    IF i > Len(moves)
    THEN [score |-> bestScore, move |-> bestMove, tables |-> tables]
    ELSE LET searched == alphaBeta(tree, tables, moves[i].to, depth - 1, -Infinity, -alpha)
             score == -searched.score
         IN  IF score > bestScore
             THEN alphaBetaRootLoop(tree, searched.tables, depth, moves, i + 1,
                                    Max(alpha, score), score, moves[i])
             ELSE alphaBetaRootLoop(tree, searched.tables, depth, moves, i + 1,
                                    Max(alpha, score), bestScore, bestMove)

alphaBetaRoot(tree, tables, n, depth) ==
    IF Len(tree[n].moves) = 0
    THEN [score |-> IF tree[n].inCheck THEN -30000 ELSE 0, move |-> NoMove,
          tables |-> tables]
    ELSE alphaBetaRootLoop(tree, tables, depth,
                           orderMovesAdvanced(tables, tree[n].moves, depth), 1,
                           -Infinity, -Infinity,
                           orderMovesAdvanced(tables, tree[n].moves, depth)[1])

(* The iterative deepening of EnhancedChessAI.getBestMove, lines 145-173,  *)
(* from the given depth on, when the time limit does not pass: the move    *)
(* and the score of the last iteration that returned a move, the tables    *)
(* left and the result of each iteration.  The table holds fewer than      *)
(* 100000 entries, so line 146 clears nothing.                             *)
RECURSIVE deepening(_, _, _, _, _, _, _)
deepening(tree, tables, n, depth, bestMove, bestScore, iterations) ==
    IF depth > tables.maxDepth
    THEN [move |-> bestMove, score |-> bestScore, tables |-> tables,
          iterations |-> iterations]
    ELSE LET result == alphaBetaRoot(tree, tables, n, depth)
             iteration == [depth |-> depth, score |-> result.score, move |-> result.move]
         IN  IF result.move # NoMove
             THEN deepening(tree, result.tables, n, depth + 1, result.move, result.score,
                            Append(iterations, iteration))
             ELSE deepening(tree, result.tables, n, depth + 1, bestMove, bestScore,
                            Append(iterations, iteration))

(* The score the comparison of ChessAI.orderMoves gives a move, lines      *)
(* 172-207.  The test of lines 180-192 asks whether the side that moved    *)
(* is in check after its own legal move, which it never is, so the term    *)
(* for checks is 0.                                                        *)
OrderScore(tables, move, depth) ==
      (IF move.captured THEN 1000 + move.victim ELSE 0)
    + (IF depth \in DOMAIN tables.killerMoves
          /\ \E k \in 1 .. Len(tables.killerMoves[depth]) :
                tables.killerMoves[depth][k].key = move.key
       THEN 100 ELSE 0)
    + move.centre

(* ChessAI.orderMoves.                                                     *)
orderMoves(tables, moves, depth) ==
    MovesOf(SortByScore([i \in 1 .. Len(moves) |->
                            [move |-> moves[i],
                             score |-> OrderScore(tables, moves[i], depth)]]))

(* The probe of ChessAI.minimax, lines 80-83: whether the entry is         *)
(* returned.                                                               *)
returnsEntry(ttEntry, depth) == ttEntry # NoEntry /\ ttEntry.depth >= depth

(* Lines 139-143 of ChessAI.minimax: the result is stored and returned.    *)
minimaxStore(tables, n, depth, bestScore, bestMove) ==
    [score |-> bestScore, move |-> bestMove,
     tables |-> [tables EXCEPT
         !.transpositionTable[n] =
             [score |-> bestScore, depth |-> depth, flag |-> "NONE", move |-> bestMove],
         !.events = @ \cup {[kind |-> "store", node |-> n, depth |-> depth]}]]

(* Lines 131-136 of ChessAI.minimax: the move that cut the loop off is put *)
(* on the killer list of the depth when it is not a capture.               *)
CutOff(tables, move, depth) ==
    IF ~move.captured /\ depth \in DOMAIN tables.killerMoves
    THEN [tables EXCEPT !.killerMoves[depth] = KillersWith(@, move),
                        !.events = @ \cup {[kind |-> "killer", depth |-> depth,
                                            move |-> move, cutoff |-> TRUE]}]
    ELSE tables

(* ChessAI.minimax(game, depth, alpha, beta, isMaximizing), the game being *)
(* the position n of the tree, and its loop from the i-th move of the      *)
(* ordered list: the score and the move returned (NoMove for null) and the *)
(* tables left.                                                            *)
RECURSIVE minimax(_, _, _, _, _, _, _)
RECURSIVE minimaxLoop(_, _, _, _, _, _, _, _, _, _, _)
minimax(tree, tables, n, depth, alpha, beta, isMaximizing) ==
    LET ttEntry == tables.transpositionTable[n]
        seen == IF ttEntry = NoEntry THEN tables
                ELSE Noted(tables, [kind |-> "probe", node |-> n, depth |-> depth,
                                    entry |-> ttEntry,
                                    returns |-> returnsEntry(ttEntry, depth)])
    IN  IF returnsEntry(ttEntry, depth)
        THEN [score |-> ttEntry.score, move |-> ttEntry.move, tables |-> seen]
        ELSE IF depth = 0 \/ tree[n].gameState # "playing"
        THEN [score |-> evaluatePosition(tree[n]), move |-> NoMove,
              tables |-> Noted(seen, [kind |-> "leaf", node |-> n, depth |-> depth,
                                      score |-> evaluatePosition(tree[n])])]
        ELSE IF Len(tree[n].moves) = 0
        THEN [score |-> IF tree[n].inCheck THEN -20000 ELSE 0, move |-> NoMove,
              tables |-> seen]
        ELSE minimaxLoop(tree, seen, n, depth, orderMoves(seen, tree[n].moves, depth), 1,
                         alpha, beta, isMaximizing,
                         IF isMaximizing THEN -Infinity ELSE Infinity, NoMove)

minimaxLoop(tree, tables, n, depth, moves, i, alpha, beta, isMaximizing, bestScore, bestMove) ==
    LET move == moves[i]
        result == minimax(tree, tables, move.to, depth - 1, alpha, beta, ~isMaximizing)
        score == result.score
        better == IF isMaximizing THEN score > bestScore ELSE score < bestScore
        after == [alpha     |-> IF isMaximizing THEN Max(alpha, score) ELSE alpha,
                  beta      |-> IF isMaximizing THEN beta ELSE Min(beta, score),
                  bestScore |-> IF better THEN score ELSE bestScore,
                  bestMove  |-> IF better THEN move ELSE bestMove]
    IN  IF after.beta <= after.alpha
        THEN minimaxStore(CutOff(result.tables, move, depth), n, depth,
                          after.bestScore, after.bestMove)
        ELSE IF i = Len(moves)
        THEN minimaxStore(result.tables, n, depth, after.bestScore, after.bestMove)
        ELSE minimaxLoop(tree, result.tables, n, depth, moves, i + 1,
                         after.alpha, after.beta, isMaximizing,
                         after.bestScore, after.bestMove)

(* ChessAI.getBestMove of a game whose side to move is not in check: the   *)
(* tables after lines 30-31, and the result of the search from them.       *)
ChessAI_started(tables) ==
    [tables EXCEPT !.transpositionTable = [n \in DOMAIN @ |-> NoEntry],
                   !.killerMoves = [d \in 0 .. 9 |-> << >>]]

ChessAI_search(tree, tables, n) ==
    minimax(tree, ChessAI_started(tables), n, tables.maxDepth, -Infinity, Infinity, TRUE)

(* EnhancedChessAI.getBestMove when the book and the random pick are not   *)
(* taken: the tables when the iterative deepening starts, which are those  *)
(* the call found, and the result of the deepening.                        *)
EnhancedChessAI_started(tables) == tables

EnhancedChessAI_search(tree, tables, n) ==
    deepening(tree, EnhancedChessAI_started(tables), n, 1, NoMove, -Infinity, << >>)

(* ChessAI.getDepthFromDifficulty.                                         *)
ChessAI_getDepthFromDifficulty(difficulty) ==
    CASE difficulty = 1 -> 2
      [] difficulty = 2 -> 3
      [] difficulty = 3 -> 4
      [] difficulty = 4 -> 5
      [] OTHER          -> 3

(* The trees searched.  The static scores are multiples of ScoreStep       *)
(* between -MaxScore and MaxScore steps.                                   *)
MaxScore == 1

ScoreStep == 50

Scores == {s * ScoreStep : s \in -MaxScore .. MaxScore}

(* A move that captures nothing, and a pawn capturing a piece of the      *)
(* given value.                                                            *)
Quiet(key, to) ==
    [key |-> key, to |-> to, captured |-> FALSE, victim |-> 0, mvvlva |-> 0,
     bonus |-> 0, centre |-> 0]

Capture(key, to, victim) ==
    [key |-> key, to |-> to, captured |-> TRUE, victim |-> victim,
     mvvlva |-> victim - 10, bonus |-> 0, centre |-> 0]

(* A position: updateGameState leaves a side in check exactly with the     *)
(* statuses check and checkmate, and a side without legal moves with       *)
(* checkmate and stalemate.                                                *)
Position(gameState, currentPlayer, score, moves, nullGame) ==
    [gameState     |-> gameState,
     currentPlayer |-> currentPlayer,
     inCheck       |-> gameState \in {"check", "checkmate"},
     score         |-> score,
     moves         |-> IF gameState \in {"checkmate", "stalemate"} THEN << >> ELSE moves,
     nullGame      |-> nullGame]

(* The statuses of the positions 4, 6 and 7 of a tree.                     *)
Statuses ==
    { <<"playing", "playing", "playing">>,
      <<"playing", "check", "playing">>,
      <<"playing", "stalemate", "draw">>,
      <<"playing", "playing", "checkmate">>,
      <<"checkmate", "playing", "checkmate">>,
      <<"checkmate", "check", "playing">>,
      <<"check", "playing", "playing">> }

(* A tree of four plies.  The side `first` is to move in position 1 and    *)
(* has two moves, to the positions 2 and 3; the other side answers from 2  *)
(* by taking a knight (4) or a pawn (5) and from 3 by taking the pawn (5): *)
(* position 5 is reached by two orders of moves, the pawn being taken on   *)
(* the square it stopped on or en passant; from 5 the first side moves to  *)
(* 6 or takes a pawn and reaches 7.  The positions 4,                      *)
(* 6 and 7 have the statuses given and, when play goes on from them, one   *)
(* move, after which the game is a stalemate (8 and 9).  10 and 11 are     *)
(* the positions 2 and 3 with the first side to move again, as the null    *)
(* move makes them; no null move is made from a position with less than 3  *)
(* plies left, and the positions 4 to 9 never have as many: a search of 4  *)
(* plies or more returns from 2 and 3 after the null move.                 *)
Tree(first, status, score) ==
    LET other == OppositeColor(first)
    IN  << Position("playing", first, 0, <<Quiet(1, 2), Quiet(2, 3)>>, 0),
           Position("playing", other, score[2],
                    <<Capture(3, 4, 320), Capture(4, 5, 100)>>, 10),
           Position("playing", other, score[3], <<Capture(4, 5, 100)>>, 11),
           Position(status[1], first, score[4], <<Quiet(5, 9)>>, 0),
           Position("playing", first, score[5], <<Quiet(6, 6), Capture(7, 7, 100)>>, 0),
           Position(status[2], other, score[6], <<Quiet(8, 8)>>, 0),
           Position(status[3], other, score[7], <<Quiet(9, 8)>>, 0),
           Position("stalemate", first, 0, << >>, 0),
           Position("stalemate", other, 0, << >>, 0),
           Position("playing", first, score[2], <<Quiet(10, 9)>>, 2),
           Position("playing", first, score[3], <<Quiet(10, 9)>>, 3) >>

(* A tree of five plies in which a position is reached after two plies    *)
(* and after four.  The side `first` moves a rook one square (to position  *)
(* 2) or two (to 3); the other side answers in the same way with a rook of *)
(* its own (from 2 to 4, from 3 to 5); from 4 the first side moves its     *)
(* rook the second square (6) and the other side then does the same and    *)
(* reaches 5 again.  From 5 the first side moves to 7 or takes a pawn and  *)
(* reaches 8; 7 and 8 have the second and the third status given and,      *)
(* when play goes on from them, one move, after which the game is a        *)
(* stalemate (9).  10 and 11 are the positions 2 and 3 with the first side *)
(* to move again, whose one move ends in the stalemate 12.                 *)
Ladder(first, status, score) ==
    LET other == OppositeColor(first)
    IN  << Position("playing", first, 0, <<Quiet(1, 2), Quiet(2, 3)>>, 0),
           Position("playing", other, score[2], <<Quiet(3, 4)>>, 10),
           Position("playing", other, score[3], <<Quiet(4, 5)>>, 11),
           Position("playing", first, score[4], <<Quiet(5, 6)>>, 0),
           Position("playing", first, score[5], <<Quiet(6, 7), Capture(7, 8, 100)>>, 0),
           Position("playing", other, 0, <<Quiet(8, 5)>>, 0),
           Position(status[2], other, score[6], <<Quiet(9, 9)>>, 0),
           Position(status[3], other, score[7], <<Quiet(10, 9)>>, 0),
           Position("stalemate", first, 0, << >>, 0),
           Position("playing", first, score[2], <<Quiet(11, 12)>>, 2),
           Position("playing", first, score[3], <<Quiet(11, 12)>>, 3),
           Position("stalemate", other, 0, << >>, 0) >>

(* A tree of exchanges.  In the positions 1 to 7 the sides move in turn    *)
(* and the side to move may take a pawn, which leads to the next position, *)
(* or make a quiet move; in position 1 it may also take a knight, after    *)
(* which nothing can be taken (8).  In 8 and 9 only quiet moves are left.  *)
(* The captures from position 1 go on for more plies than quiescenceSearch *)
(* follows them.                                                           *)
Exchanges(first, score) ==
    LET other == OppositeColor(first)
    IN  << Position("playing", first, score[1],
                    <<Quiet(1, 8), Capture(2, 2, 100), Capture(3, 8, 320)>>, 0),
           Position("playing", other, score[2], <<Quiet(4, 9), Capture(5, 3, 100)>>, 0),
           Position("playing", first, score[3], <<Quiet(6, 8), Capture(7, 4, 100)>>, 0),
           Position("playing", other, score[4], <<Quiet(8, 9), Capture(9, 5, 100)>>, 0),
           Position("playing", first, score[5], <<Quiet(10, 8), Capture(11, 6, 100)>>, 0),
           Position("playing", other, score[6], <<Quiet(12, 9), Capture(13, 7, 100)>>, 0),
           Position("playing", first, 0, <<Quiet(14, 8), Capture(15, 8, 100)>>, 0),
           Position("playing", other, 0, <<Quiet(16, 9)>>, 0),
           Position("playing", first, 0, <<Quiet(17, 8)>>, 0) >>

(* The static scores of the positions 1 to 6 of a tree of exchanges.       *)
ExchangeScores == [1 .. 6 -> {-ScoreStep, ScoreStep}]

(* The windows quiescenceSearch is entered with.                           *)
Windows ==
    {w \in (Scores \cup {-Infinity, Infinity}) \X (Scores \cup {-Infinity, Infinity}) :
        w[1] < w[2]}

(* The static scores of the positions 2 to 7 of the trees searched.        *)
TreeScores ==
    {score \in [2 .. 7 -> Scores] : score[2] = 0 /\ score[3] = 0 /\ score[4] = 0}

----------------------------------------------------------------------------
(***************************************************************************)
(* js/chess-ui.js : class ChessUI, the controller of the page, and the     *)
(* controller of the page with the two engines (part_000), whose handlers  *)
(* are the same statements.  The controller is a record with the fields    *)
(* playerColor, isPlayerTurn, isThinking, selectedSquare and validMoves of *)
(* the object, aiMode (classic: a ChessAI, as in chess-ui.js; enhanced: an *)
(* EnhancedChessAI), the timers set with setTimeout that have not fired,   *)
(* in the order they were set, each with its callback and its delay, and   *)
(* applied, what the last move made on the game through the controller     *)
(* since the game was new was: by whom, of which color, and playerColor at *)
(* that time.  this.game                                                   *)
(* is the variable game and this.ai, in the enhanced mode, the variable    *)
(* ai.  What the handlers do to the page alone is not modelled, nor are    *)
(* changeDifficulty and changeAIMode, which replace the engine.  The       *)
(* handlers return the controller and the game they leave.                 *)
(***************************************************************************)

(* No move made on the game through the controller.                       *)
NoneApplied == [by |-> "NONE", color |-> "NONE", playerColor |-> "NONE"]

(* ChessUI.constructor.                                                    *)
ChessUI(aiMode) ==
    [aiMode         |-> aiMode,
     selectedSquare |-> NullSquare,
     validMoves     |-> << >>,
     playerColor    |-> "WHITE",
     isPlayerTurn   |-> TRUE,
     isThinking     |-> FALSE,
     timers         |-> << >>,
     applied        |-> NoneApplied]

(* Before a page is loaded.                                                *)
NoUI == << >>

(* setTimeout(callback, delay).                                            *)
setTimeout(u, callback, delay) ==
    [u EXCEPT !.timers = Append(@, [callback |-> callback, delay |-> delay])]

(* ChessUI.deselectSquare.                                                 *)
deselectSquare(u) ==
    [u EXCEPT !.selectedSquare = NullSquare, !.validMoves = << >>]

(* ChessUI.selectSquare.                                                   *)
selectSquare(u, g, row, col) ==
    LET piece == getPieceAt(g, row, col)
    IN  IF piece = Null \/ piece.color # u.playerColor
        THEN deselectSquare(u)
        ELSE [deselectSquare(u) EXCEPT !.selectedSquare = <<row, col>>,
                                       !.validMoves = getLegalMoves(g, piece)]

(* ChessUI.isValidMove.                                                    *)
isValidMove(u, row, col) == HasMove(u.validMoves, row, col)

(* ChessUI.handleGameEnd.                                                  *)
handleGameEnd(u) == [u EXCEPT !.isPlayerTurn = FALSE]

(* The test of the game's end of makePlayerMove and makeAIMove.            *)
GameEnded(g) == g.gameState \in {"checkmate", "stalemate", "draw"}

(* makePlayerMove after a successful makeMove, lines 246-262.              *)
PlayerMoved(u, g, color) ==
    LET moved == [deselectSquare(u) EXCEPT
                     !.applied = [by |-> "player", color |-> color,
                                  playerColor |-> u.playerColor]]
    IN  IF GameEnded(g)
        THEN handleGameEnd(moved)
        ELSE setTimeout([moved EXCEPT !.isPlayerTurn = FALSE], "makeAIMove", 500)

(* makePlayerMove after its makeMove, run, of the piece.                   *)
PlayerMoveMade(u, piece, run) ==
    IF run.ok
    THEN [ui |-> PlayerMoved(u, run.game, piece.color), game |-> run.game]
    ELSE [ui |-> u, game |-> run.game]

(* ChessUI.makePlayerMove for a move that is not a promotion, the only     *)
(* moves of the games explored.  With no piece on the square moved from,   *)
(* piece.type throws and nothing is done.                                  *)
makePlayerMove(u, g, fromRow, fromCol, toRow, toCol) ==
    IF getPieceAt(g, fromRow, fromCol) = Null
    THEN [ui |-> u, game |-> g]
    ELSE PlayerMoveMade(u, getPieceAt(g, fromRow, fromCol),
                        makeMove(g, fromRow, fromCol, toRow, toCol, "QUEEN"))

(* Whether the square holds a piece of the player's.                       *)
OwnPiece(u, g, row, col) ==
    getPieceAt(g, row, col) # Null /\ getPieceAt(g, row, col).color = u.playerColor

(* ChessUI.handleSquareClick for a click on the square (row, col): with a  *)
(* square selected, the move if it is one of validMoves, else the          *)
(* selection of an own piece, else the deselection; with none, the         *)
(* selection of an own piece.                                              *)
handleSquareClick(u, g, row, col) ==
    IF ~u.isPlayerTurn \/ u.isThinking
    THEN [ui |-> u, game |-> g]
    ELSE IF u.selectedSquare # NullSquare /\ isValidMove(u, row, col)
    THEN makePlayerMove(u, g, u.selectedSquare[1], u.selectedSquare[2], row, col)
    ELSE IF OwnPiece(u, g, row, col)
    THEN [ui |-> selectSquare(u, g, row, col), game |-> g]
    ELSE IF u.selectedSquare # NullSquare
    THEN [ui |-> deselectSquare(u), game |-> g]
    ELSE [ui |-> u, game |-> g]

(* ChessUI.makeAIMove up to its await, lines 267-279: the call returns or  *)
(* sets the timer whose callback calls getBestMove.                        *)
makeAIMove(u, g) ==
    LET aiColor == OppositeColor(u.playerColor)
    IN  IF g.currentPlayer # aiColor \/ (g.gameState # "playing" /\ g.gameState # "check")
        THEN u
        ELSE setTimeout([u EXCEPT !.isThinking = TRUE], "getBestMove", 100)

(* What this.ai.getBestMove(this.game) does and returns for each of the    *)
(* chances, in either mode.                                                *)
BestMoveRuns(u, engine, g) ==
    IF u.aiMode = "enhanced"
    THEN EnhancedChessAI_getBestMove(engine, g)
    ELSE [c \in Chances |-> [ai |-> engine] @@ ChessAI_getBestMove(g)[c]]

(* makeAIMove after its await, lines 281-305: run is what getBestMove did  *)
(* and returned, moved what makeMove did with the move returned.           *)
AIMoved(u, run, moved) ==
    LET g == IF run.move # NoMove THEN moved.game ELSE run.game
        applied == IF run.move # NoMove /\ moved.ok
                   THEN [by |-> "AI",
                         color |-> getPieceAt(run.game, run.move.from[1], run.move.from[2]).color,
                         playerColor |-> u.playerColor]
                   ELSE u.applied
        done == [u EXCEPT !.isThinking = FALSE, !.isPlayerTurn = TRUE, !.applied = applied]
    IN  [ui   |-> IF GameEnded(g) THEN handleGameEnd(done) ELSE done,
         game |-> g,
         ai   |-> run.ai]

(* The callback of the timer of makeAIMove and the rest of makeAIMove,     *)
(* which runs as soon as the callback has resolved the promise.            *)
makeAIMoveResumed(u, run) ==
    AIMoved(u, run,
            IF run.move # NoMove
            THEN makeMove(run.game, run.move.from[1], run.move.from[2],
                          run.move.to[1], run.move.to[2], Undefined)
            ELSE [ok |-> FALSE, game |-> run.game])

(* ChessUI.newGame.                                                        *)
newGame(u, g) ==
    LET started == [deselectSquare(u) EXCEPT !.isThinking = FALSE,
                                             !.isPlayerTurn = (u.playerColor = "WHITE"),
                                             !.applied = NoneApplied]
    IN  [ui   |-> IF u.playerColor = "BLACK"
                  THEN setTimeout(started, "makeAIMove", 1000)
                  ELSE started,
         game |-> reset(g)]

(* ChessUI.changePlayerColor, in part_000 once the user has confirmed.     *)
changePlayerColor(u, g, color) ==
    newGame([u EXCEPT !.playerColor = color], g)

(* ChessUI.showHint up to its await.                                       *)
showHint(u, g) ==
    IF g.currentPlayer # u.playerColor \/ u.isThinking
    THEN u
    ELSE setTimeout([u EXCEPT !.isThinking = TRUE], "getHint", 100)

(* What the callback of the timer of showHint does and returns for each of *)
(* the chances: this.ai.getHint(this.game) in chess-ui.js, and in the      *)
(* enhanced mode getBestMove on the game with playerColor to move, put     *)
(* back afterwards.                                                        *)
HintRuns(u, engine, g) ==
    IF u.aiMode = "enhanced"
    THEN RestorePlayer(EnhancedChessAI_getBestMove(engine,
                                                   [g EXCEPT !.currentPlayer = u.playerColor]),
                       g.currentPlayer)
    ELSE [c \in Chances |-> [ai |-> engine] @@ ChessAI_getHint(g)[c]]

(* showHint after its await: the squares of the hint are highlighted.      *)
showHintResumed(u, run) ==
    [ui |-> [u EXCEPT !.isThinking = FALSE], game |-> run.game, ai |-> run.ai]

(* The timers that may fire next: a timer fires before those set later     *)
(* with the same delay or a longer one.                                    *)
MayFire(u, i) ==
    \A j \in 1 .. i - 1 : u.timers[j].delay > u.timers[i].delay

(* The controller when its i-th timer fires.                               *)
Fired(u, i) ==
    [u EXCEPT !.timers = SubSeq(@, 1, i - 1) \o SubSeq(@, i + 1, Len(@))]

(* Before any tree is given to an engine.                                  *)
NoSearch == [tree |-> << >>, enhanced |-> << >>, basic |-> << >>, calls |-> << >>]

(***************************************************************************)
(* The state machine.  game is the ChessGame object, call the arguments of *)
(* the last makeMove call made on it, ret the value that call returned and *)
(* ply the number of calls explored so far.                                *)
(*                                                                         *)
(* A behaviour starts from a position that the program reaches: the game   *)
(* after one of the opening lines below has been played on a new game with *)
(* makeMove.  From there every call makeMove(fromRow, fromCol, toRow,      *)
(* toCol, promotionPiece) with squares of the board is explored.           *)
(***************************************************************************)

NoCall == [fromRow |-> -1, fromCol |-> -1, toRow |-> -1, toCol |-> -1, promotionPiece |-> "NONE"]

(* e2e3 g7g5 f1e2 g5g4 g1f3 g4g3 a2a3 g3h2: a black pawn on h2, White may  *)
(* castle king-side.                                                       *)
CastleIntoPawnLine ==
    << <<6, 4, 5, 4>>, <<1, 6, 3, 6>>, <<7, 5, 6, 4>>, <<3, 6, 4, 6>>,
       <<7, 6, 5, 5>>, <<4, 6, 5, 6>>, <<6, 0, 5, 0>>, <<5, 6, 6, 7>> >>

(* The same line followed by e1g1.                                         *)
CastledIntoPawnLine == Append(CastleIntoPawnLine, <<7, 4, 7, 6>>)

(* d2d4 d7d5 b1c3 b8c6 c1f4 c8f5 d1d2 d8d7 e2e3 e7e6 g1f3 g8f6 f1e2 f8e7:  *)
(* both sides may castle on either side.                                   *)
DevelopedLine ==
    << <<6, 3, 4, 3>>, <<1, 3, 3, 3>>, <<7, 1, 5, 2>>, <<0, 1, 2, 2>>,
       <<7, 2, 4, 5>>, <<0, 2, 3, 5>>, <<7, 3, 6, 3>>, <<0, 3, 1, 3>>,
       <<6, 4, 5, 4>>, <<1, 4, 2, 4>>, <<7, 6, 5, 5>>, <<0, 6, 2, 5>>,
       <<7, 5, 6, 4>>, <<0, 5, 1, 4>> >>

(* The same line followed by e1g1: Black to move.                          *)
DevelopedBlackLine == Append(DevelopedLine, <<7, 4, 7, 6>>)

(* e2e4 b7b6 f1c4 c8a6 g1f3 a6c4: a black bishop on c4 attacks f1.         *)
BishopGuardsF1Line ==
    << <<6, 4, 4, 4>>, <<1, 1, 2, 1>>, <<7, 5, 4, 2>>, <<0, 2, 2, 0>>,
       <<7, 6, 5, 5>>, <<2, 0, 4, 2>> >>

(* e2e4 a7a6 e4e5 d7d5: White may capture on d6 en passant.                *)
EnPassantLine ==
    << <<6, 4, 4, 4>>, <<1, 0, 2, 0>>, <<4, 4, 3, 4>>, <<1, 3, 3, 3>> >>

(* a2a3 e7e5 a3a4 e5e4 d2d4: Black may capture on d3 en passant.           *)
BlackEnPassantLine ==
    << <<6, 0, 5, 0>>, <<1, 4, 3, 4>>, <<5, 0, 4, 0>>, <<3, 4, 4, 4>>,
       <<6, 3, 4, 3>> >>

(* e2e4 e7e5 f2f4 e5f4 e4e5 d8e7 g1f3 d7d5: the white pawn on e5 is pinned *)
(* on the e file by the queen on e7 when d6 becomes the en passant target. *)
PinnedEnPassantLine ==
    << <<6, 4, 4, 4>>, <<1, 4, 3, 4>>, <<6, 5, 4, 5>>, <<3, 4, 4, 5>>,
       <<4, 4, 3, 4>>, <<0, 3, 1, 4>>, <<7, 6, 5, 5>>, <<1, 3, 3, 3>> >>

(* a2a4 b7b5 a4b5 a7a6 b5a6 c8b7 a6b7 b8c6: a white pawn on b7 may promote *)
(* on b8 or by capturing on a8.                                            *)
PromotionLine ==
    << <<6, 0, 4, 0>>, <<1, 1, 3, 1>>, <<4, 0, 3, 1>>, <<1, 0, 2, 0>>,
       <<3, 1, 2, 0>>, <<0, 2, 1, 1>>, <<2, 0, 1, 1>>, <<0, 1, 2, 2>> >>

(* f2f3 e7e5 g2g4: Black mates with d8h4.                                  *)
FoolsMateLine ==
    << <<6, 5, 5, 5>>, <<1, 4, 3, 4>>, <<6, 6, 4, 6>> >>

(* e2e4 f7f5: White checks with d1h5.                                      *)
CheckLine ==
    << <<6, 4, 4, 4>>, <<1, 5, 3, 5>> >>

(* e2e3 a7a5 d1h5 a8a6 h5a5 h7h5 h2h4 a6h6 a5c7 f7f6 c7d7 e8f7 d7b7 d8d3   *)
(* b7b8 d3h7 b8c8 f7g6: White stalemates with c8e6.                        *)
StalemateLine ==
    << <<6, 4, 5, 4>>, <<1, 0, 3, 0>>, <<7, 3, 3, 7>>, <<0, 0, 2, 0>>,
       <<3, 7, 3, 0>>, <<1, 7, 3, 7>>, <<6, 7, 4, 7>>, <<2, 0, 2, 7>>,
       <<3, 0, 1, 2>>, <<1, 5, 2, 5>>, <<1, 2, 1, 3>>, <<0, 4, 1, 5>>,
       <<1, 3, 1, 1>>, <<0, 3, 5, 3>>, <<1, 1, 0, 1>>, <<5, 3, 1, 7>>,
       <<0, 1, 0, 2>>, <<1, 5, 2, 6>> >>

(* b1c3 b8c6 c3b1 c6b8: four moves that are neither captures nor pawn      *)
(* moves and lead back to the same position.                               *)
KnightShuffle ==
    << <<7, 1, 5, 2>>, <<0, 1, 2, 2>>, <<5, 2, 7, 1>>, <<2, 2, 0, 1>> >>

RECURSIVE Repeat(_, _)
Repeat(moves, n) == IF n = 0 THEN << >> ELSE moves \o Repeat(moves, n - 1)

(* f2f3 a7a6 g2g4 e7e5, then 99 knight moves: Black mates with d8h4, the   *)
(* hundredth move in a row that is neither a capture nor a pawn move.      *)
FiftyMoveLine ==
    << <<6, 5, 5, 5>>, <<1, 0, 2, 0>>, <<6, 6, 4, 6>>, <<1, 4, 3, 4>> >> \o
    Repeat(KnightShuffle, 24) \o
    << <<7, 1, 5, 2>>, <<0, 1, 2, 2>>, <<5, 2, 7, 1>> >>

(* 25 times b1c3 b8c6 c3b1 c6b8 from the starting position: a hundred    *)
(* moves that are neither captures nor pawn moves.  The game is a draw     *)
(* with White to move and every pawn on its starting square.               *)
DrawnLine == Repeat(KnightShuffle, 25)

(* A game played down to king and pawn against king: Black to move can    *)
(* take the pawn and leave the two kings.                                  *)
PawnVersusKingLine ==
    << <<6, 2, 4, 2>>, <<0, 6, 2, 7>>, <<7, 6, 5, 7>>, <<1, 5, 3, 5>>,
       <<6, 4, 5, 4>>, <<1, 1, 3, 1>>, <<4, 2, 3, 1>>, <<1, 6, 3, 6>>,
       <<5, 7, 3, 6>>, <<2, 7, 0, 6>>, <<3, 6, 1, 7>>, <<0, 7, 1, 7>>,
       <<6, 6, 5, 6>>, <<1, 7, 6, 7>>, <<7, 7, 6, 7>>, <<0, 5, 1, 6>>,
       <<6, 7, 3, 7>>, <<1, 6, 6, 1>>, <<3, 7, 3, 5>>, <<6, 1, 7, 0>>,
       <<6, 0, 5, 0>>, <<1, 2, 3, 2>>, <<3, 5, 3, 2>>, <<1, 0, 3, 0>>,
       <<3, 2, 0, 2>>, <<0, 3, 0, 2>>, <<7, 1, 5, 2>>, <<7, 0, 5, 2>>,
       <<6, 3, 5, 2>>, <<0, 2, 5, 2>>, <<7, 3, 6, 3>>, <<5, 2, 5, 0>>,
       <<7, 2, 5, 0>>, <<1, 3, 3, 3>>, <<5, 0, 1, 4>>, <<0, 6, 1, 4>>,
       <<6, 3, 3, 3>>, <<1, 4, 3, 3>>, <<7, 5, 4, 2>>, <<3, 3, 5, 4>>,
       <<6, 5, 5, 4>>, <<0, 4, 1, 3>>, <<4, 2, 5, 1>>, <<1, 3, 1, 2>>,
       <<5, 1, 7, 3>>, <<0, 1, 2, 0>>, <<3, 1, 2, 0>>, <<0, 0, 2, 0>>,
       <<7, 4, 7, 5>>, <<3, 0, 4, 0>>, <<7, 3, 4, 0>>, <<1, 2, 2, 1>>,
       <<7, 5, 7, 4>>, <<2, 0, 4, 0>>, <<7, 4, 6, 4>>, <<4, 0, 4, 5>>,
       <<5, 4, 4, 5>>, <<2, 1, 3, 1>>, <<6, 4, 6, 5>>, <<3, 1, 2, 2>>,
       <<6, 5, 6, 4>>, <<2, 2, 3, 2>>, <<6, 4, 6, 3>>, <<3, 2, 2, 3>>,
       <<6, 3, 6, 2>>, <<2, 3, 1, 4>>, <<6, 2, 7, 3>>, <<1, 4, 1, 5>>,
       <<5, 6, 4, 6>>, <<1, 5, 2, 5>>, <<7, 3, 7, 2>>, <<2, 5, 2, 6>>,
       <<7, 2, 7, 3>>, <<2, 6, 1, 5>>, <<7, 3, 6, 4>>, <<1, 5, 2, 5>>,
       <<6, 4, 5, 3>>, <<2, 5, 1, 5>>, <<5, 3, 6, 4>>, <<1, 5, 2, 5>>,
       <<4, 5, 3, 5>>, <<2, 5, 3, 6>>, <<6, 4, 7, 5>>, <<3, 6, 4, 6>>,
       <<7, 5, 7, 4>> >>

(* A game played down to king and pawn against king and bishop: Black to  *)
(* move can take the pawn.                                                 *)
PawnVersusBishopLine ==
    << <<7, 1, 5, 2>>, <<0, 6, 2, 5>>, <<6, 4, 5, 4>>, <<2, 5, 3, 7>>,
       <<7, 3, 3, 7>>, <<0, 7, 0, 6>>, <<3, 7, 1, 5>>, <<0, 4, 1, 5>>,
       <<5, 2, 3, 3>>, <<0, 6, 0, 7>>, <<3, 3, 1, 2>>, <<0, 3, 1, 2>>,
       <<7, 0, 7, 1>>, <<1, 2, 6, 7>>, <<7, 7, 6, 7>>, <<1, 5, 2, 5>>,
       <<6, 3, 5, 3>>, <<1, 7, 2, 7>>, <<6, 7, 2, 7>>, <<1, 6, 2, 7>>,
       <<6, 5, 4, 5>>, <<1, 1, 3, 1>>, <<7, 4, 7, 3>>, <<1, 0, 2, 0>>,
       <<7, 3, 6, 3>>, <<2, 5, 3, 5>>, <<7, 6, 5, 5>>, <<0, 7, 0, 6>>,
       <<6, 0, 5, 0>>, <<0, 6, 6, 6>>, <<7, 5, 6, 6>>, <<3, 5, 2, 4>>,
       <<6, 1, 5, 1>>, <<3, 1, 4, 1>>, <<5, 0, 4, 1>>, <<2, 4, 3, 5>>,
       <<6, 2, 5, 2>>, <<3, 5, 2, 6>>, <<5, 2, 4, 2>>, <<2, 6, 2, 5>>,
       <<5, 5, 3, 4>>, <<1, 4, 2, 4>>, <<6, 6, 0, 0>>, <<0, 5, 4, 1>>,
       <<6, 3, 6, 4>>, <<2, 5, 1, 6>>, <<3, 4, 1, 3>>, <<0, 1, 1, 3>>,
       <<6, 4, 6, 5>>, <<1, 6, 2, 6>>, <<7, 1, 7, 0>>, <<1, 3, 2, 5>>,
       <<7, 0, 2, 0>>, <<0, 2, 1, 1>>, <<2, 0, 2, 4>>, <<1, 1, 0, 0>>,
       <<6, 5, 7, 6>>, <<0, 0, 1, 1>>, <<2, 4, 2, 5>>, <<2, 6, 2, 5>>,
       <<4, 2, 3, 2>>, <<4, 1, 3, 2>>, <<7, 6, 6, 7>>, <<3, 2, 5, 4>>,
       <<7, 2, 5, 4>>, <<1, 1, 3, 3>>, <<5, 4, 1, 0>>, <<3, 3, 5, 1>>,
       <<1, 0, 5, 4>>, <<2, 7, 3, 7>>, <<6, 7, 5, 6>>, <<5, 1, 6, 2>>,
       <<5, 6, 4, 7>>, <<6, 2, 5, 3>>, <<4, 7, 3, 7>>, <<5, 3, 3, 5>>,
       <<5, 4, 7, 6>>, <<3, 5, 2, 6>>, <<3, 7, 4, 6>>, <<2, 6, 0, 4>>,
       <<4, 5, 3, 5>>, <<0, 4, 3, 1>>, <<7, 6, 6, 7>>, <<3, 1, 5, 3>>,
       <<6, 7, 3, 4>>, <<2, 5, 3, 4>>, <<4, 6, 4, 7>> >>

(* A game played down to king against king and two knights: White to move *)
(* can take one of the knights.                                            *)
TwoKnightsLine ==
    << <<6, 6, 5, 6>>, <<1, 7, 2, 7>>, <<6, 2, 5, 2>>, <<1, 1, 2, 1>>,
       <<6, 1, 4, 1>>, <<1, 0, 2, 0>>, <<6, 3, 5, 3>>, <<0, 2, 1, 1>>,
       <<7, 2, 2, 7>>, <<1, 1, 7, 7>>, <<2, 7, 1, 6>>, <<0, 5, 1, 6>>,
       <<4, 1, 3, 1>>, <<1, 6, 5, 2>>, <<7, 1, 5, 2>>, <<2, 0, 3, 1>>,
       <<5, 2, 4, 0>>, <<0, 7, 6, 7>>, <<4, 0, 2, 1>>, <<1, 2, 2, 1>>,
       <<6, 0, 5, 0>>, <<6, 7, 6, 5>>, <<7, 4, 6, 5>>, <<0, 6, 2, 5>>,
       <<7, 3, 7, 4>>, <<0, 0, 5, 0>>, <<7, 0, 5, 0>>, <<7, 7, 0, 0>>,
       <<5, 0, 0, 0>>, <<3, 1, 4, 1>>, <<7, 4, 4, 1>>, <<1, 4, 3, 4>>,
       <<0, 0, 5, 0>>, <<2, 5, 1, 7>>, <<4, 1, 2, 1>>, <<0, 3, 2, 1>>,
       <<6, 5, 6, 6>>, <<2, 1, 7, 6>>, <<6, 6, 7, 6>>, <<1, 5, 3, 5>>,
       <<5, 0, 1, 0>>, <<1, 7, 0, 5>>, <<1, 0, 1, 3>>, <<0, 4, 1, 3>>,
       <<7, 5, 5, 7>>, <<1, 3, 2, 2>>, <<5, 7, 3, 5>>, <<2, 2, 1, 1>>,
       <<3, 5, 1, 3>>, <<0, 5, 1, 3>>, <<5, 6, 4, 6>>, <<1, 1, 2, 1>>,
       <<7, 6, 6, 6>>, <<3, 4, 4, 4>>, <<5, 3, 4, 4>>, <<2, 1, 3, 0>>,
       <<6, 6, 7, 6>>, <<1, 3, 3, 4>>, <<7, 6, 6, 5>>, <<3, 4, 4, 6>>,
       <<6, 5, 6, 6>>, <<0, 1, 1, 3>>, <<4, 4, 3, 4>>, <<4, 6, 3, 4>>,
       <<6, 6, 7, 6>>, <<3, 4, 4, 6>>, <<6, 4, 5, 4>>, <<4, 6, 5, 4>>,
       <<7, 6, 7, 7>>, <<5, 4, 4, 2>>, <<7, 7, 6, 7>>, <<4, 2, 6, 3>>,
       <<6, 7, 7, 6>>, <<6, 3, 7, 5>> >>

(* A game played down to king, knight and pawn against king: Black to     *)
(* move can take the pawn.                                                 *)
KnightAndPawnLine ==
    << <<6, 0, 5, 0>>, <<1, 5, 3, 5>>, <<6, 2, 5, 2>>, <<1, 3, 3, 3>>,
       <<6, 3, 5, 3>>, <<1, 7, 2, 7>>, <<7, 2, 2, 7>>, <<1, 6, 2, 7>>,
       <<6, 1, 4, 1>>, <<0, 2, 2, 4>>, <<5, 0, 4, 0>>, <<3, 3, 4, 3>>,
       <<5, 2, 4, 3>>, <<0, 3, 4, 3>>, <<7, 3, 6, 3>>, <<4, 3, 4, 1>>,
       <<6, 3, 4, 1>>, <<1, 0, 3, 0>>, <<4, 1, 1, 4>>, <<0, 6, 1, 4>>,
       <<6, 7, 5, 7>>, <<0, 4, 1, 3>>, <<6, 6, 5, 6>>, <<1, 3, 0, 4>>,
       <<5, 6, 4, 6>>, <<2, 4, 1, 3>>, <<4, 6, 3, 5>>, <<1, 3, 4, 0>>,
       <<7, 0, 4, 0>>, <<1, 4, 3, 5>>, <<4, 0, 3, 0>>, <<0, 0, 3, 0>>,
       <<6, 5, 4, 5>>, <<0, 7, 1, 7>>, <<7, 4, 6, 3>>, <<0, 1, 2, 2>>,
       <<6, 3, 7, 2>>, <<2, 2, 3, 4>>, <<4, 5, 3, 4>>, <<3, 0, 3, 4>>,
       <<6, 4, 4, 4>>, <<0, 5, 2, 3>>, <<4, 4, 3, 5>>, <<3, 4, 3, 5>>,
       <<5, 7, 4, 7>>, <<3, 5, 7, 5>>, <<7, 2, 6, 3>>, <<7, 5, 7, 6>>,
       <<7, 7, 7, 6>>, <<1, 7, 1, 6>>, <<7, 6, 1, 6>>, <<1, 1, 3, 1>>,
       <<1, 6, 1, 2>>, <<2, 3, 1, 2>>, <<6, 3, 7, 4>>, <<0, 4, 1, 4>>,
       <<7, 1, 6, 3>>, <<1, 2, 5, 6>>, <<7, 4, 7, 5>>, <<5, 6, 4, 7>>,
       <<6, 3, 5, 1>>, <<1, 4, 2, 3>>, <<5, 1, 4, 3>>, <<4, 7, 3, 6>>,
       <<4, 3, 3, 1>>, <<2, 3, 2, 4>>, <<3, 1, 1, 0>>, <<3, 6, 1, 4>>,
       <<7, 5, 7, 6>>, <<1, 4, 0, 3>>, <<7, 6, 6, 6>>, <<2, 7, 3, 7>>,
       <<6, 6, 7, 6>>, <<0, 3, 2, 5>>, <<1, 0, 2, 2>>, <<2, 5, 0, 3>>,
       <<2, 2, 0, 3>>, <<2, 4, 3, 5>>, <<0, 3, 1, 1>>, <<3, 5, 3, 6>>,
       <<7, 6, 6, 7>>, <<3, 7, 4, 7>>, <<6, 7, 5, 7>>, <<3, 6, 2, 6>>,
       <<5, 7, 4, 7>>, <<2, 6, 2, 7>>, <<4, 7, 4, 6>>, <<2, 7, 1, 7>>,
       <<1, 1, 3, 0>>, <<1, 7, 0, 6>>, <<3, 0, 4, 2>>, <<0, 6, 0, 5>>,
       <<4, 2, 2, 3>>, <<0, 5, 1, 6>>, <<2, 3, 4, 2>>, <<1, 6, 1, 5>>,
       <<4, 6, 3, 6>>, <<1, 5, 2, 4>>, <<3, 6, 3, 7>>, <<2, 4, 3, 3>>,
       <<4, 2, 3, 0>>, <<3, 3, 4, 3>>, <<3, 7, 4, 7>> >>

(* The English opening and the Sicilian defence: games whose moves are    *)
(* keys of the opening book.                                               *)
EnglishLine == << <<6, 2, 4, 2>> >>

SicilianLine == << <<6, 4, 4, 4>>, <<1, 2, 3, 2>> >>

Openings ==
    << << >>, EnglishLine, SicilianLine, CastleIntoPawnLine, CastledIntoPawnLine, DevelopedLine, DevelopedBlackLine,
       BishopGuardsF1Line, EnPassantLine, BlackEnPassantLine, PinnedEnPassantLine,
       PromotionLine, FoolsMateLine, CheckLine, StalemateLine, FiftyMoveLine,
       DrawnLine, PawnVersusKingLine, PawnVersusBishopLine, TwoKnightsLine, KnightAndPawnLine >>

(* The game after makeMove has been called with each move of a line, in   *)
(* order.  The line is played in halves, and the game after the first half *)
(* is evaluated (its move number is read) before the second half is        *)
(* played on it, which keeps the evaluation of a long line shallow.        *)
RECURSIVE Play(_, _)
Play(g, moves) ==
    IF moves = << >>
    THEN g
    ELSE IF Len(moves) = 1
    THEN makeMove(g, moves[1][1], moves[1][2], moves[1][3], moves[1][4], "QUEEN").game
    ELSE LET half == Len(moves) \div 2
             played == Play(g, SubSeq(moves, 1, half))
         IN  IF played.fullMoveNumber >= 1
             THEN Play(played, SubSeq(moves, half + 1, Len(moves)))
             ELSE played

LastCall(moves) ==
    IF moves = << >>
    THEN NoCall
    ELSE LET m == moves[Len(moves)]
         IN  [fromRow |-> m[1], fromCol |-> m[2], toRow |-> m[3], toCol |-> m[4],
              promotionPiece |-> "QUEEN"]

(* The promotion choices a caller passes: one of the four or none when the *)
(* piece to move is a pawn one step from its last row, the default         *)
(* otherwise.                                                              *)
PromotionInputs(g, fromRow, fromCol) ==
    LET piece == g.board[fromRow][fromCol]
    IN  IF piece.type = "PAWN" /\ piece.row = (IF piece.color = "WHITE" THEN 1 ELSE 6)
        THEN PromotionChoices \cup {Undefined}
        ELSE {"QUEEN"}

Init ==
    \E i \in 1 .. Len(Openings) :
        /\ game = Play(NewGame, Openings[i])
        /\ call = LastCall(Openings[i])
        /\ ret = TRUE
        /\ ply = 0
        /\ clones = << >>
        /\ ai = EnhancedChessAI(2)
        /\ answers = << >>
        /\ ui = NoUI
        /\ search = NoSearch

(* The number of makeMove calls made so far, on the game and on its copy.  *)
CallsMade == ply + (IF clones = << >> THEN 0 ELSE clones[1].ply)

(* One call of makeMove on the game.  A call that returns false ends the   *)
(* behaviour: it leaves the game as it was, and the calls that may follow  *)
(* it are those explored from the state before it.                         *)
MakeMove ==
    /\ CallsMade < MaxPly
    /\ ret
    /\ \E fromRow \in Rows, fromCol \in Rows, toRow \in Rows, toCol \in Rows :
         \E promotionPiece \in PromotionInputs(game, fromRow, fromCol) :
            LET r == makeMove(game, fromRow, fromCol, toRow, toCol, promotionPiece)
            IN  /\ game' = r.game
                /\ ret' = r.ok
                /\ call' = [fromRow |-> fromRow, fromCol |-> fromCol, toRow |-> toRow,
                            toCol |-> toCol, promotionPiece |-> promotionPiece]
                /\ ply' = ply + 1
                /\ clones' = [i \in 1 .. Len(clones) |->
                                 [clones[i] EXCEPT
                                    !.game = WriteThrough(@, clones[i].shares, r.game)]]
    /\ UNCHANGED <<ai, answers, search, ui>>

Next == MakeMove

Spec == Init /\ [][Next]_vars

(* One call of reset, after any call of makeMove, accepted or not.  No     *)
(* call of makeMove has been made on the game it leaves.                   *)
Reset ==
    /\ game' = reset(game)
    /\ call' = NoCall
    /\ ret' = TRUE
    /\ UNCHANGED <<ply, clones, ai, answers, search, ui>>

NextWithReset == MakeMove \/ Reset

ResetSpec == Init /\ [][NextWithReset]_vars

(* The three cloneGame methods.                                            *)
CloneMethods == {"ChessGame", "ChessAI", "EnhancedChessAI"}

CloneBy(method, g) ==
    CASE method = "ChessGame"       -> cloneGame(g)
      [] method = "ChessAI"         -> ChessAI_cloneGame(g)
      [] method = "EnhancedChessAI" -> EnhancedChessAI_cloneGame(g)

(* One call of a cloneGame method on the game.  The copy is kept with the  *)
(* method that made it, the number of makeMove calls made on it and the    *)
(* result of the last of them.                                             *)
CloneGame ==
    /\ clones = << >>
    /\ ret
    /\ \E method \in CloneMethods :
          LET c == CloneBy(method, game)
          IN  clones' = << [game |-> c.game, shares |-> c.shares, by |-> method,
                            ply |-> 0, ret |-> TRUE] >>
    /\ UNCHANGED <<game, call, ret, ply, ai, answers, search, ui>>

(* One call of makeMove on the copy.                                       *)
MakeMoveOnClone ==
    /\ clones # << >>
    /\ CallsMade < MaxPly
    /\ ret /\ clones[1].ret
    /\ \E fromRow \in Rows, fromCol \in Rows, toRow \in Rows, toCol \in Rows :
         \E promotionPiece \in PromotionInputs(clones[1].game, fromRow, fromCol) :
            LET r == makeMove(clones[1].game, fromRow, fromCol, toRow, toCol, promotionPiece)
            IN  /\ clones' = << [clones[1] EXCEPT !.game = r.game, !.ret = r.ok,
                                                  !.ply = @ + 1] >>
                /\ game' = WriteThrough(game, clones[1].shares, r.game)
    /\ UNCHANGED <<call, ret, ply, ai, answers, search, ui>>

NextWithClone == MakeMove \/ CloneGame \/ MakeMoveOnClone

CloneSpec == Init /\ [][NextWithClone]_vars

(* The number of calls of getBestMove and getHint explored on a game.      *)
MaxSearches == 2

(* What is kept of a call of getBestMove or getHint: the class and the     *)
(* method, the difficulty and the game it was called with, whether the     *)
(* time limit passed, the move it returned, the number of calls of         *)
(* Math.random it made, whether the side to move of the game it searched   *)
(* has a legal move, and for a move found by a search the depth completed  *)
(* and the move picked.                                                    *)
Answer(class, method, difficulty, g, expiry, run, hasMoves, depth, pick) ==
    LET found == run.searched /\ run.move # NoMove
    IN  [class |-> class, method |-> method, difficulty |-> difficulty, game |-> g,
         timed |-> expiry # 0, move |-> run.move, draws |-> run.draws,
         hasMoves |-> hasMoves, searched |-> run.searched,
         depth |-> IF found THEN depth ELSE 0,
         pick |-> IF found THEN pick ELSE 0]

(* The depth of the last iteration of getBestMove whose result counts.     *)
DepthCompleted(engine, expiry) ==
    IF expiry = 0 \/ expiry > engine.maxDepth THEN engine.maxDepth ELSE expiry - 1

(* The scores of EnhancedChessAI are computed from the position alone, so  *)
(* a root search of a position to a depth settles on the move an earlier   *)
(* one of the same position to the same depth settled on.                  *)
SameSearch(g, depth, pick) ==
    \A i \in 1 .. Len(answers) :
        (/\ answers[i].class = "EnhancedChessAI"
         /\ answers[i].searched
         /\ answers[i].move # NoMove
         /\ (IF answers[i].method = "getHint"
             THEN [answers[i].game EXCEPT !.currentPlayer = "WHITE"]
             ELSE answers[i].game) = g
         /\ answers[i].depth = depth) => answers[i].pick = pick

(* One call of EnhancedChessAI.getBestMove on the game.  runs is what the  *)
(* call does for each of the chances.                                      *)
GetBestMove ==
    /\ Len(answers) < MaxSearches
    /\ \E runs \in {EnhancedChessAI_getBestMove(ai, game)},
          hasMoves \in {hasLegalMoves(game, game.currentPlayer)} :
          \E c \in Chances :
              LET run == runs[c]
                  depth == DepthCompleted(ai, c.expiry)
              IN  /\ (run.searched /\ run.move # NoMove) => SameSearch(game, depth, c.pick)
                  /\ game' = run.game
                  /\ ai' = run.ai
                  /\ answers' = Append(answers,
                        Answer("EnhancedChessAI", "getBestMove", ai.difficulty, game,
                               c.expiry, run, hasMoves, depth, c.pick))
    /\ UNCHANGED <<call, ret, ply, clones, search, ui>>

(* One call of EnhancedChessAI.getHint on the game.                        *)
GetHint ==
    /\ Len(answers) < MaxSearches
    /\ \E runs \in {EnhancedChessAI_getHint(ai, game)},
          searchedGame \in {[game EXCEPT !.currentPlayer = "WHITE"]} :
          \E hasMoves \in {hasLegalMoves(searchedGame, "WHITE")}, c \in Chances :
              LET run == runs[c]
                  depth == DepthCompleted(ai, c.expiry)
              IN  /\ (run.searched /\ run.move # NoMove)
                        => SameSearch(searchedGame, depth, c.pick)
                  /\ game' = run.game
                  /\ ai' = run.ai
                  /\ answers' = Append(answers,
                        Answer("EnhancedChessAI", "getHint", ai.difficulty, game,
                               c.expiry, run, hasMoves, depth, c.pick))
    /\ UNCHANGED <<call, ret, ply, clones, search, ui>>

(* One call of ChessAI.getBestMove on the game, by an engine of the        *)
(* default difficulty, whose depth is 3.                                   *)
BasicGetBestMove ==
    /\ Len(answers) < MaxSearches
    /\ \E runs \in {ChessAI_getBestMove(game)},
          hasMoves \in {hasLegalMoves(game, game.currentPlayer)} :
          \E c \in Chances :
              /\ c.expiry = 0
              /\ game' = runs[c].game
              /\ answers' = Append(answers,
                    Answer("ChessAI", "getBestMove", 2, game, 0, runs[c], hasMoves,
                           3, c.pick))
    /\ UNCHANGED <<call, ret, ply, clones, ai, search, ui>>

(* One call of ChessAI.getHint on the game.                                *)
BasicGetHint ==
    /\ Len(answers) < MaxSearches
    /\ \E runs \in {ChessAI_getHint(game)},
          hasMoves \in {hasLegalMoves([game EXCEPT !.currentPlayer = "WHITE"], "WHITE")} :
          \E c \in Chances :
              /\ c.expiry = 0
              /\ game' = runs[c].game
              /\ answers' = Append(answers,
                    Answer("ChessAI", "getHint", 2, game, 0, runs[c], hasMoves,
                           3, c.pick))
    /\ UNCHANGED <<call, ret, ply, clones, ai, search, ui>>

(* The games the engines are called on.                                    *)
AIOpenings ==
    << << >>, EnglishLine, SicilianLine, BlackEnPassantLine, FoolsMateLine, CheckLine,
       StalemateLine, PawnVersusKingLine >>

(* An engine of any difficulty and one of the games, no call made yet.     *)
AIInit ==
    \E i \in 1 .. Len(AIOpenings), difficulty \in Difficulties :
        /\ game = Play(NewGame, AIOpenings[i])
        /\ call = LastCall(AIOpenings[i])
        /\ ret = TRUE
        /\ ply = 0
        /\ clones = << >>
        /\ ai = EnhancedChessAI(difficulty)
        /\ answers = << >>
        /\ ui = NoUI
        /\ search = NoSearch

NextWithAI == GetBestMove \/ GetHint \/ BasicGetBestMove \/ BasicGetHint

AISpec == AIInit /\ [][NextWithAI]_vars

(***************************************************************************)
(* The engines searching a tree: an EnhancedChessAI of difficulty 1, 2 or  *)
(* 3, whose searches are 3, 4 and 5 plies deep, and a ChessAI of           *)
(* difficulty 3 or 4, whose search is 4 or 5 plies deep and whose          *)
(* evaluation has no random term.                                          *)
(* The two engines are given the game of position 1 of the tree, in which  *)
(* the side to move is not in check, and the time limit never passes.      *)
(***************************************************************************)
SearchInit ==
    /\ game = NewGame
    /\ call = NoCall
    /\ ret = TRUE
    /\ ply = 0
    /\ clones = << >>
    /\ ai = EnhancedChessAI(2)
    /\ answers = << >>
    /\ ui = NoUI
    /\ \E first \in Colors, status \in Statuses, score \in TreeScores,
          difficulty \in {1, 2, 3}, level \in {3, 4} :
          \E tree \in {Tree(first, status, score), Ladder(first, status, score)} :
             search = [tree     |-> tree,
                       enhanced |-> NewTables(tree, getDepthFromDifficulty(difficulty), 20),
                       basic    |-> NewTables(tree, ChessAI_getDepthFromDifficulty(level), 10),
                       calls    |-> << >>]

(* What is kept of a call: the class, the killer lists and the history     *)
(* table the search started with, the move and the score it ended with,    *)
(* and for the iterative deepening the result of each iteration.           *)
SearchCall(class, started, run, iterations) ==
    [class |-> class,
     killerMoves |-> started.killerMoves, historyTable |-> started.historyTable,
     move |-> run.move, score |-> run.score, iterations |-> iterations]

(* One call of EnhancedChessAI.getBestMove on the game of position 1, in   *)
(* which neither the book nor the random pick is taken.                    *)
EnhancedSearch ==
    /\ Len(search.calls) < MaxSearches
    /\ \E run \in {EnhancedChessAI_search(search.tree, search.enhanced, 1)} :
          search' = [search EXCEPT
                        !.enhanced = run.tables,
                        !.calls = Append(@, SearchCall("EnhancedChessAI",
                                                       EnhancedChessAI_started(search.enhanced),
                                                       run, run.iterations))]
    /\ UNCHANGED <<game, call, ret, ply, clones, ai, answers, ui>>

(* One call of ChessAI.getBestMove on the game of position 1.              *)
BasicSearch ==
    /\ Len(search.calls) < MaxSearches
    /\ \E run \in {ChessAI_search(search.tree, search.basic, 1)} :
          search' = [search EXCEPT
                        !.basic = run.tables,
                        !.calls = Append(@, SearchCall("ChessAI",
                                                       ChessAI_started(search.basic),
                                                       run, << >>))]
    /\ UNCHANGED <<game, call, ret, ply, clones, ai, answers, ui>>

NextWithSearch == EnhancedSearch \/ BasicSearch

SearchSpec == SearchInit /\ [][NextWithSearch]_vars

(* quiescenceSearch on its own: the engine is given a tree of exchanges.   *)
QuiescenceInit ==
    /\ game = NewGame
    /\ call = NoCall
    /\ ret = TRUE
    /\ ply = 0
    /\ clones = << >>
    /\ ai = EnhancedChessAI(2)
    /\ answers = << >>
    /\ ui = NoUI
    /\ \E first \in Colors, score \in ExchangeScores :
          search = [NoSearch EXCEPT !.tree = Exchanges(first, score)]

(* The call quiescenceSearch(game, alpha, beta) alphaBeta makes at depth   *)
(* 0, on the game of position 1 or 2 of the tree.                          *)
QuiescenceSearch ==
    /\ search.calls = << >>
    /\ \E n \in {1, 2}, window \in Windows :
          \E run \in {quiescenceRun(search.tree, n, window[1], window[2], 0)} :
             search' = [search EXCEPT
                           !.calls = << [class |-> "quiescenceSearch", node |-> n,
                                         alpha |-> window[1], beta |-> window[2],
                                         score |-> run.score, calls |-> run.calls] >>]
    /\ UNCHANGED <<game, call, ret, ply, clones, ai, answers, ui>>

NextWithQuiescence == QuiescenceSearch

QuiescenceSpec == QuiescenceInit /\ [][NextWithQuiescence]_vars

(* The number of calls an engine has served before those whose answers are *)
(* kept.                                                                   *)
MaxEarlierCalls == 10

(* The games an engine that has served calls before is called on: the      *)
(* history of each is a key of the opening book.                           *)
BookOpenings == << EnglishLine, SicilianLine >>

BookInit ==
    \E i \in 1 .. Len(BookOpenings), difficulty \in Difficulties :
        /\ game = Play(NewGame, BookOpenings[i])
        /\ call = LastCall(BookOpenings[i])
        /\ ret = TRUE
        /\ ply = 0
        /\ clones = << >>
        /\ ai = EnhancedChessAI(difficulty)
        /\ answers = << >>
        /\ ui = NoUI
        /\ search = NoSearch

(* One call of EnhancedChessAI.getBestMove on the game, made before the    *)
(* calls whose answers are kept.                                           *)
EarlierGetBestMove ==
    /\ answers = << >>
    /\ ai.moveCount < MaxEarlierCalls
    /\ \E runs \in {EnhancedChessAI_getBestMove(ai, game)} :
          \E c \in Chances :
              /\ game' = runs[c].game
              /\ ai' = runs[c].ai
    /\ UNCHANGED <<call, ret, ply, clones, answers, search, ui>>

(* One call of EnhancedChessAI.getHint on the game, made before the calls  *)
(* whose answers are kept.                                                 *)
EarlierGetHint ==
    /\ answers = << >>
    /\ ai.moveCount < MaxEarlierCalls
    /\ \E runs \in {EnhancedChessAI_getHint(ai, game)} :
          \E c \in Chances :
              /\ game' = runs[c].game
              /\ ai' = runs[c].ai
    /\ UNCHANGED <<call, ret, ply, clones, answers, search, ui>>

NextWithBook == EarlierGetBestMove \/ EarlierGetHint \/ GetBestMove \/ GetHint

BookSpec == BookInit /\ [][NextWithBook]_vars

(***************************************************************************)
(* The page: a ChessUI over a new game, with a ChessAI (chess-ui.js) or an *)
(* EnhancedChessAI (part_000) of difficulty 2.  The user clicks squares,   *)
(* presses New Game and Hint and chooses a color; the timers fire.  The    *)
(* user clicks one of ClickSquares, stops moving pieces in a game of       *)
(* MaxUIPlies moves, and leaves the page alone while MaxTimers timers are  *)
(* pending or the engine has been asked MaxAICalls moves; the timers are   *)
(* not bounded.                                                            *)
(***************************************************************************)
MaxUIPlies == 2

MaxTimers == 2

MaxAICalls == 2

(* e2, e4, e7 and e5.                                                      *)
ClickSquares == {<<6, 4>>, <<4, 4>>, <<1, 4>>, <<3, 4>>}

AIModes == {"classic", "enhanced"}

UIInit ==
    \E aiMode \in AIModes :
        /\ game = NewGame
        /\ call = NoCall
        /\ ret = TRUE
        /\ ply = 0
        /\ clones = << >>
        /\ ai = EnhancedChessAI(2)
        /\ answers = << >>
        /\ search = NoSearch
        /\ ui = ChessUI(aiMode)

UserActs == Len(ui.timers) < MaxTimers /\ ai.moveCount < MaxAICalls

(* A click on a square of the board: handleSquareClick.                    *)
SquareClick ==
    /\ UserActs
    /\ Len(game.moveHistory) < MaxUIPlies
    /\ \E square \in ClickSquares :
          \E run \in {handleSquareClick(ui, game, square[1], square[2])} :
              /\ ui' = run.ui
              /\ game' = run.game
    /\ UNCHANGED <<call, ret, ply, clones, ai, answers, search>>

(* A press of the New Game button: newGame.                                *)
NewGamePress ==
    /\ UserActs
    /\ \E run \in {newGame(ui, game)} :
          /\ ui' = run.ui
          /\ game' = run.game
    /\ UNCHANGED <<call, ret, ply, clones, ai, answers, search>>

(* A change of the color select: changePlayerColor.                        *)
ColorChange ==
    /\ UserActs
    /\ \E color \in Colors \ {ui.playerColor} :
          \E run \in {changePlayerColor(ui, game, color)} :
              /\ ui' = run.ui
              /\ game' = run.game
    /\ UNCHANGED <<call, ret, ply, clones, ai, answers, search>>

(* A press of the Hint button: showHint up to its await.                   *)
HintPress ==
    /\ UserActs
    /\ ui' = showHint(ui, game)
    /\ UNCHANGED <<game, call, ret, ply, clones, ai, answers, search>>

(* A timer set by makePlayerMove or newGame fires: makeAIMove up to its    *)
(* await.                                                                  *)
MakeAIMoveTimer ==
    /\ \E i \in 1 .. Len(ui.timers) :
          /\ MayFire(ui, i)
          /\ ui.timers[i].callback = "makeAIMove"
          /\ ui' = makeAIMove(Fired(ui, i), game)
    /\ UNCHANGED <<game, call, ret, ply, clones, ai, answers, search>>

(* The timer of makeAIMove fires: getBestMove and the rest of makeAIMove.  *)
GetBestMoveTimer ==
    /\ \E i \in 1 .. Len(ui.timers) :
          /\ MayFire(ui, i)
          /\ ui.timers[i].callback = "getBestMove"
          /\ \E runs \in {BestMoveRuns(ui, ai, game)} :
                \E c \in Chances :
                    /\ ui.aiMode = "classic" => c.expiry = 0
                    /\ \E run \in {makeAIMoveResumed(Fired(ui, i), runs[c])} :
                          /\ ui' = run.ui
                          /\ game' = run.game
                          /\ ai' = run.ai
    /\ UNCHANGED <<call, ret, ply, clones, answers, search>>

(* The timer of showHint fires: the hint and the rest of showHint.         *)
GetHintTimer ==
    /\ \E i \in 1 .. Len(ui.timers) :
          /\ MayFire(ui, i)
          /\ ui.timers[i].callback = "getHint"
          /\ \E runs \in {HintRuns(ui, ai, game)} :
                \E c \in Chances :
                    /\ ui.aiMode = "classic" => c.expiry = 0
                    /\ \E run \in {showHintResumed(Fired(ui, i), runs[c])} :
                          /\ ui' = run.ui
                          /\ game' = run.game
                          /\ ai' = run.ai
    /\ UNCHANGED <<call, ret, ply, clones, answers, search>>

NextWithUI ==
    \/ SquareClick
    \/ NewGamePress
    \/ ColorChange
    \/ HintPress
    \/ MakeAIMoveTimer
    \/ GetBestMoveTimer
    \/ GetHintTimer

UISpec == UIInit /\ [][NextWithUI]_vars

(* Whether a timer with the callback is pending and may fire next.         *)
Due(callback) ==
    \E i \in 1 .. Len(ui.timers) : MayFire(ui, i) /\ ui.timers[i].callback = callback

(* Every timer set fires after its delay: weak fairness of the three       *)
(* callbacks.  For the two that call an engine the condition is written    *)
(* out, ENABLED <<GetBestMoveTimer>>_vars being Due("getBestMove") and     *)
(* ENABLED <<GetHintTimer>>_vars being Due("getHint"): a callback that is  *)
(* due finds a chance and takes its timer off the list.                    *)
UIFairSpec ==
    /\ UISpec
    /\ WF_vars(MakeAIMoveTimer)
    /\ ([]<>(~Due("getBestMove")) \/ []<><<GetBestMoveTimer>>_vars)
    /\ ([]<>(~Due("getHint")) \/ []<><<GetHintTimer>>_vars)

(* Every move of every opening line is accepted by makeMove.               *)
OpeningsPlayed ==
    ply = 0 => \E i \in 1 .. Len(Openings) :
                   /\ call = LastCall(Openings[i])
                   /\ Len(game.moveHistory) = Len(Openings[i])

----------------------------------------------------------------------------
(***************************************************************************)
(* The properties.  In an action formula game and ret are the game and the *)
(* result before a call, game', ret' and call' the game, the result and    *)
(* the arguments of the call just made.                                    *)
(***************************************************************************)

(* The piece on the from-square of a call.                                 *)
Mover(g, c) == g.board[c.fromRow][c.fromCol]

(* C1: a call of makeMove that returns false leaves the whole game as it   *)
(* was: the board with every piece's row, col, type and hasMoved, the side *)
(* to move, the status, the move history, the captured pieces, the king    *)
(* positions, the en passant target and both clocks.                       *)
C1_FailedMoveChangesNothing == [][ret' = FALSE => game' = game]_vars

(* A refused en passant capture: the call moved a pawn onto the en passant *)
(* target, was tried on the board, and returned false.                     *)
C1_Witness ==
    /\ call # NoCall
    /\ ret = FALSE
    /\ Mover(game, call).type = "PAWN"
    /\ Mover(game, call).color = game.currentPlayer
    /\ game.enPassantTarget = <<call.toRow, call.toCol>>
    /\ HasMove(getPossibleMoves(Mover(game, call), game.board, GameContext(game, Mover(game, call))),
               call.toRow, call.toCol)

(* C2: makeMove returns true exactly when the from-square holds a piece of *)
(* the side to move and the to-square is one of getLegalMoves of that      *)
(* piece; it returns false for an empty from-square, for a piece of the    *)
(* side not to move and for a destination that holds a piece of the        *)
(* mover's color.                                                          *)
C2_AcceptedIffLegal ==
    [][LET piece == Mover(game, call')
           target == game.board[call'.toRow][call'.toCol]
       IN  /\ ret' = (/\ piece # Null
                      /\ piece.color = game.currentPlayer
                      /\ HasMove(getLegalMoves(game, piece), call'.toRow, call'.toCol))
           /\ piece = Null => ret' = FALSE
           /\ piece # Null /\ piece.color # game.currentPlayer => ret' = FALSE
           /\ piece # Null /\ target # Null /\ target.color = piece.color => ret' = FALSE
      ]_vars

(* The call of the test 'Cannot capture own pieces': e2 to e1 in a new     *)
(* game, refused.                                                          *)
C2_Witness ==
    /\ game.moveHistory = << >>
    /\ call = [fromRow |-> 6, fromCol |-> 4, toRow |-> 7, toCol |-> 4, promotionPiece |-> "QUEEN"]
    /\ ret = FALSE

(* The rules of chess for an attack, stated on the squares alone: the     *)
(* piece of the given type and color on (r, c) attacks (row, col).  A pawn *)
(* attacks the two squares diagonally ahead of it, occupied or not; a      *)
(* rook, bishop or queen attacks along a line whose squares in between are *)
(* empty.                                                                  *)
Attacks(board, type, color, r, c, row, col) ==
    LET dr == row - r
        dc == col - c
        n == IF Abs(dr) > Abs(dc) THEN Abs(dr) ELSE Abs(dc)
        clear == \A k \in 1 .. n - 1 : board[r + k * (dr \div n)][c + k * (dc \div n)] = Null
        straight == (dr = 0) # (dc = 0)
        diagonal == Abs(dr) = Abs(dc) /\ dr # 0
    IN  CASE type = "PAWN"   -> dr = (IF color = "WHITE" THEN -1 ELSE 1) /\ Abs(dc) = 1
          [] type = "KNIGHT" -> {Abs(dr), Abs(dc)} = {1, 2}
          [] type = "KING"   -> n = 1
          [] type = "ROOK"   -> straight /\ clear
          [] type = "BISHOP" -> diagonal /\ clear
          [] type = "QUEEN"  -> (straight \/ diagonal) /\ clear
          [] OTHER           -> FALSE

AttackedBy(board, row, col, color) ==
    \E r \in Rows, c \in Rows :
        /\ board[r][c].color = color
        /\ Attacks(board, board[r][c].type, color, r, c, row, col)

(* The call moves a king two files: a castling move.                       *)
IsCastlingCall(g, c) ==
    /\ Mover(g, c).type = "KING"
    /\ Abs(c.toCol - c.fromCol) = 2

(* C3: after makeMove has accepted a move (any legal move, castling        *)
(* included) the king of the side that moved is not in check.              *)
C3_MoverNotInCheckAfterMove == [][ret' => ~isInCheck(game', game.currentPlayer)]_vars

(* C4: the board holds exactly one king of each color and no king is among *)
(* the captured pieces.                                                    *)
C4_OneKingEach ==
    \A color \in Colors :
        /\ Cardinality({sq \in Rows \X Rows :
                           /\ game.board[sq[1]][sq[2]].type = "KING"
                           /\ game.board[sq[1]][sq[2]].color = color}) = 1
        /\ \A i \in 1 .. Len(game.capturedPieces[color]) :
               game.capturedPieces[color][i].type # "KING"

(* The king positions of a game are the squares of its kings.              *)
KingPositionsRight(g) ==
    \A color \in Colors :
        LET pos == g.kingPositions[color]
        IN  /\ g.board[pos[1]][pos[2]].type = "KING"
            /\ g.board[pos[1]][pos[2]].color = color

(* C5: kingPositions[c] is the square of the king of color c, in every     *)
(* game reached by makeMove and in the game every call of isLegalMove on   *)
(* it leaves.                                                              *)
C5_KingPositionsConsistent ==
    ret => /\ KingPositionsRight(game)
           /\ \A fromRow \in Rows, fromCol \in Rows, toRow \in Rows, toCol \in Rows :
                  KingPositionsRight(isLegalMoveRun(game, fromRow, fromCol, toRow, toCol).game)

(* C6: a castling move is accepted only if the king and the rook of that   *)
(* side stand unmoved on their home squares, the king is not in check, the *)
(* squares between them are empty, and neither the square the king crosses *)
(* nor the one it lands on is attacked by a piece of the other color.      *)
C6_CastlingOnlyIfAllowed ==
    [][ret' /\ IsCastlingCall(game, call') =>
         LET king == Mover(game, call')
             home == IF king.color = "WHITE" THEN 7 ELSE 0
             kingSide == call'.toCol > call'.fromCol
             rook == game.board[home][IF kingSide THEN 7 ELSE 0]
             between == IF kingSide THEN {5, 6} ELSE {1, 2, 3}
             crossed == IF kingSide THEN {5, 6} ELSE {3, 2}
         IN  /\ call'.fromRow = home /\ call'.fromCol = 4
             /\ call'.toRow = home /\ call'.toCol = (IF kingSide THEN 6 ELSE 2)
             /\ ~king.hasMoved
             /\ rook.type = "ROOK" /\ rook.color = king.color /\ ~rook.hasMoved
             /\ ~AttackedBy(game.board, home, 4, OppositeColor(king.color))
             /\ \A col \in between : game.board[home][col] = Null
             /\ \A col \in crossed :
                    ~AttackedBy(game.board, home, col, OppositeColor(king.color))
      ]_vars

(* C7: after a successful castling move the king stands on column 6 or 2   *)
(* of its row, the rook that was on column 7 or 0 stands on column 5 or 3  *)
(* of that row, the squares the two left are empty, both have hasMoved     *)
(* true, and no other square of the board changed.                         *)
C7_CastlingEffect ==
    [][ret' /\ IsCastlingCall(game, call') =>
         LET king == Mover(game, call')
             row == call'.fromRow
             kingSide == call'.toCol > call'.fromCol
             kingTo == IF kingSide THEN 6 ELSE 2
             rookFrom == IF kingSide THEN 7 ELSE 0
             rookTo == IF kingSide THEN 5 ELSE 3
             rook == game.board[row][rookFrom]
         IN  /\ row = (IF king.color = "WHITE" THEN 7 ELSE 0)
             /\ rook.type = "ROOK"
             /\ game'.board[row][kingTo] =
                    [king EXCEPT !.row = row, !.col = kingTo, !.hasMoved = TRUE]
             /\ game'.board[row][rookTo] =
                    [rook EXCEPT !.row = row, !.col = rookTo, !.hasMoved = TRUE]
             /\ game'.board[row][call'.fromCol] = Null
             /\ game'.board[row][rookFrom] = Null
             /\ \A r \in Rows, c \in Rows :
                    (r # row \/ c \notin {call'.fromCol, kingTo, rookFrom, rookTo})
                        => game'.board[r][c] = game.board[r][c]
      ]_vars

(* Reached: Black has just castled queen-side.                             *)
C7_Witness ==
    /\ ret /\ ply = 1
    /\ call.fromRow = 0 /\ call.fromCol = 4 /\ call.toRow = 0 /\ call.toCol = 2
    /\ game.board[0][2].type = "KING" /\ game.board[0][2].hasMoved
    /\ game.board[0][3].type = "ROOK" /\ game.board[0][3].hasMoved
    /\ game.board[0][0] = Null /\ game.board[0][4] = Null

(* C8: after every successful makeMove enPassantTarget is the square the   *)
(* pawn skipped, ((fromRow + toRow) / 2, fromCol), if the move was a pawn  *)
(* advancing two rows and null after any other move; so a target set by    *)
(* one move is not the target after the reply.                             *)
C8_EnPassantTarget ==
    [][ret' =>
         LET piece == Mover(game, call')
             twoRows == piece.type = "PAWN" /\ Abs(call'.toRow - call'.fromRow) = 2
         IN  /\ twoRows => game'.enPassantTarget =
                               <<(call'.fromRow + call'.toRow) \div 2, call'.fromCol>>
             /\ ~twoRows => game'.enPassantTarget = NullSquare
             /\ game.enPassantTarget # NullSquare
                    => game'.enPassantTarget # game.enPassantTarget
      ]_vars

(* Reached: the move before the last was a pawn's two-row advance, the     *)
(* reply was not, and the target is null again.                            *)
C8_Witness ==
    /\ ret /\ ply = 1 /\ Len(game.moveHistory) >= 2
    /\ LET before == game.moveHistory[Len(game.moveHistory) - 1]
       IN  before.piece = "PAWN" /\ Abs(before.to[1] - before.from[1]) = 2
    /\ Abs(call.toRow - call.fromRow) # 2
    /\ game.enPassantTarget = NullSquare

(* The call moves a pawn of the side to move diagonally onto the current   *)
(* en passant target.                                                      *)
IsEnPassantCall(g, c) ==
    LET pawn == Mover(g, c)
    IN  /\ pawn.type = "PAWN" /\ pawn.color = g.currentPlayer
        /\ g.enPassantTarget = <<c.toRow, c.toCol>>
        /\ c.toRow = c.fromRow + (IF pawn.color = "WHITE" THEN -1 ELSE 1)
        /\ Abs(c.toCol - c.fromCol) = 1

(* What an en passant capture does to the game.                            *)
EnPassantEffect(g, c, h) ==
    LET pawn == Mover(g, c)
        taken == g.board[c.fromRow][c.toCol]
    IN  /\ g.board[c.toRow][c.toCol] = Null
        /\ c.fromRow # c.toRow
        /\ taken.type = "PAWN" /\ taken.color = OppositeColor(pawn.color)
        /\ h.board[c.fromRow][c.toCol] = Null
        /\ h.capturedPieces[taken.color] = Append(g.capturedPieces[taken.color], taken)
        /\ h.capturedPieces[pawn.color] = g.capturedPieces[pawn.color]
        /\ h.board[c.toRow][c.toCol] =
               [pawn EXCEPT !.row = c.toRow, !.col = c.toCol, !.hasMoved = TRUE]
        /\ h.board[c.fromRow][c.fromCol] = Null
        /\ h.halfMoveClock = 0

(* The board of the rules of chess after the en passant capture of call c. *)
BoardAfterEnPassant(g, c) ==
    [[[g.board EXCEPT ![c.toRow][c.toCol] = Mover(g, c)]
               EXCEPT ![c.fromRow][c.fromCol] = Null]
               EXCEPT ![c.fromRow][c.toCol] = Null]

(* C9 as stated: when a pawn moves diagonally onto the current en passant  *)
(* target makeMove succeeds, removes the enemy pawn on (fromRow, toCol),   *)
(* appends it to the captured pieces of its color, puts the capturing pawn *)
(* on the target square and resets halfMoveClock to 0.                     *)
C9_EnPassantAlwaysSucceeds ==
    [][IsEnPassantCall(game, call') => ret' /\ EnPassantEffect(game, call', game')]_vars

(* C9: when a pawn of the side to move moves diagonally onto the current   *)
(* en passant target, makeMove succeeds exactly when the capture does not  *)
(* leave the mover's king attacked, and when it succeeds it removes the    *)
(* enemy pawn on (fromRow, toCol), appends it to the captured pieces of    *)
(* its color, puts the capturing pawn on the target square and resets      *)
(* halfMoveClock to 0.                                                     *)
C9_EnPassantCapture ==
    [][IsEnPassantCall(game, call') =>
         LET color == game.currentPlayer
             kingPos == game.kingPositions[color]
         IN  /\ ret' = ~AttackedBy(BoardAfterEnPassant(game, call'),
                                   kingPos[1], kingPos[2], OppositeColor(color))
             /\ ret' => EnPassantEffect(game, call', game')
      ]_vars

(* Reached: White's pawn has just captured en passant from e5 to d6.       *)
C9_Witness ==
    /\ ret /\ ply = 1
    /\ call.fromRow = 3 /\ call.fromCol = 4 /\ call.toRow = 2 /\ call.toCol = 3
    /\ game.board[2][3].type = "PAWN" /\ game.board[2][3].color = "WHITE"
    /\ game.board[3][3] = Null
    /\ Len(game.capturedPieces["BLACK"]) = 1
    /\ game.moveHistory[Len(game.moveHistory)].captured = "PAWN"
    /\ game.halfMoveClock = 0

(* C10: after every successful makeMove the status is, for the side now to *)
(* move: checkmate if it is in check and has no legal move; else stalemate *)
(* if it has no legal move; else draw if halfMoveClock >= 100 or the       *)
(* material is insufficient; else check if it is in check; else playing.   *)
C10_StatusPriority ==
    (ret /\ call # NoCall) =>
        LET inCheck == isInCheck(game, game.currentPlayer)
            hasMoves == hasLegalMoves(game, game.currentPlayer)
        IN  game.gameState =
                IF inCheck /\ ~hasMoves THEN "checkmate"
                ELSE IF ~hasMoves THEN "stalemate"
                ELSE IF game.halfMoveClock >= 100 \/ isInsufficientMaterial(game) THEN "draw"
                ELSE IF inCheck THEN "check"
                ELSE "playing"

(* The number of pieces of a color and of one of the given types on the    *)
(* board of a game.                                                        *)
CountPieces(g, color, types) ==
    Cardinality({sq \in Rows \X Rows :
                    /\ g.board[sq[1]][sq[2]].color = color
                    /\ g.board[sq[1]][sq[2]].type \in types})

(* The material of a game is a king against a king, or a king and one      *)
(* bishop or one knight against a lone king.                               *)
BareMaterial(g) ==
    LET others(color) == CountPieces(g, color, {"PAWN", "ROOK", "QUEEN", "BISHOP", "KNIGHT"})
        minors(color) == CountPieces(g, color, {"BISHOP", "KNIGHT"})
    IN  /\ \A color \in Colors : CountPieces(g, color, {"KING"}) = 1
        /\ \/ others("WHITE") = 0 /\ others("BLACK") = 0
           \/ \E color \in Colors :
                 /\ others(color) = 1 /\ minors(color) = 1
                 /\ others(OppositeColor(color)) = 0

RECURSIVE TrailingQuietMoves(_)
TrailingQuietMoves(history) ==
    IF history = << >>
    THEN 0
    ELSE LET last == history[Len(history)]
         IN  IF last.captured = "NONE" /\ last.notation[1] \in {"K", "B", "R", "Q", "O"}
             THEN 1 + TrailingQuietMoves(SubSeq(history, 1, Len(history) - 1))
             ELSE 0

(* The accepted call takes a piece: its destination is occupied, or it is  *)
(* a pawn changing file.                                                   *)
IsCapture(g, c) ==
    \/ g.board[c.toRow][c.toCol] # Null
    \/ Mover(g, c).type = "PAWN" /\ c.toCol # c.fromCol

(* A successful makeMove sets halfMoveClock to 0 when it captures or moves *)
(* a pawn and adds 1 to it otherwise.                                      *)
HalfMoveClockStep ==
    ret' => game'.halfMoveClock =
               IF IsCapture(game, call') \/ Mover(game, call').type = "PAWN"
               THEN 0
               ELSE game.halfMoveClock + 1

(* After the calls so far halfMoveClock is the number of most recent       *)
(* consecutive moves that were neither captures nor pawn moves, and the    *)
(* status is draw once it has reached 100.                                 *)
HalfMoveClockCounts ==
    ret => /\ game.halfMoveClock = TrailingQuietMoves(game.moveHistory)
           /\ game.halfMoveClock >= 100 => game.gameState = "draw"

(* C12: every successful makeMove that captures a piece (en passant        *)
(* included) or moves a pawn (a promoting one included) sets halfMoveClock *)
(* to 0, every other successful makeMove adds exactly 1 to it; in every    *)
(* reachable state it is the number of most recent consecutive moves that  *)
(* were neither captures nor pawn moves, and the status is draw once it    *)
(* has reached 100.                                                        *)
C12_HalfMoveClock == [][HalfMoveClockStep]_vars /\ []HalfMoveClockCounts

(* Reached: the hundredth move in a row that neither captures nor moves a  *)
(* pawn has been made.                                                     *)
C12_Witness ==
    /\ ret /\ ply = 1
    /\ game.halfMoveClock = 100
    /\ TrailingQuietMoves(game.moveHistory) = 100
    /\ game.gameState = "draw"

(* A successful move of a pawn to row 0 or row 7 leaves on the destination *)
(* a piece of the pawn's color, on that square, of the type chosen, a      *)
(* queen when no choice is given.                                          *)
PromotionStep ==
    (ret' /\ Mover(game, call').type = "PAWN" /\ call'.toRow \in {0, 7}) =>
        LET promoted == game'.board[call'.toRow][call'.toCol]
        IN  /\ promoted.color = Mover(game, call').color
            /\ promoted.row = call'.toRow /\ promoted.col = call'.toCol
            /\ promoted.type = (IF call'.promotionPiece = Undefined
                                THEN "QUEEN" ELSE call'.promotionPiece)

NoPawnOnLastRows ==
    \A row \in {0, 7}, col \in Rows : game.board[row][col].type # "PAWN"

(* C13: when a pawn's successful move ends on row 0 or row 7 the piece on  *)
(* the destination keeps its color and square and its type becomes the     *)
(* promotion choice, QUEEN when none is given; so with choices among       *)
(* QUEEN, ROOK, BISHOP and KNIGHT no pawn ever stands on row 0 or row 7.   *)
C13_Promotion == [][PromotionStep]_vars /\ []NoPawnOnLastRows

(* Reached: a pawn has just moved to row 0 with no promotion choice given  *)
(* and a queen stands there.                                               *)
C13_Witness ==
    /\ ret /\ ply = 1
    /\ call.toRow = 0 /\ call.promotionPiece = Undefined
    /\ game.moveHistory[Len(game.moveHistory)].notation[1] \notin {"K", "B", "R", "Q", "O"}
    /\ game.board[call.toRow][call.toCol].type = "QUEEN"
    /\ game.board[call.toRow][call.toCol].color = "WHITE"

(* A successful makeMove gives the turn to the other side, appends one     *)
(* record to moveHistory and adds 1 to fullMoveNumber exactly when the     *)
(* turn returns to White.                                                  *)
TurnStep ==
    ret' => /\ game'.currentPlayer = OppositeColor(game.currentPlayer)
            /\ Len(game'.moveHistory) = Len(game.moveHistory) + 1
            /\ SubSeq(game'.moveHistory, 1, Len(game.moveHistory)) = game.moveHistory
            /\ game'.fullMoveNumber =
                   IF game'.currentPlayer = "WHITE"
                   THEN game.fullMoveNumber + 1 ELSE game.fullMoveNumber

TurnCounts ==
    ret => /\ (game.currentPlayer = "WHITE") = (Len(game.moveHistory) % 2 = 0)
           /\ game.fullMoveNumber = 1 + Len(game.moveHistory) \div 2

(* C14: every successful makeMove flips currentPlayer, appends exactly one *)
(* record to moveHistory and increments fullMoveNumber exactly when the    *)
(* turn returns to White; so currentPlayer is WHITE iff moveHistory has    *)
(* even length, and fullMoveNumber = 1 + floor(length(moveHistory) / 2).   *)
C14_TurnAndMoveNumber == [][TurnStep]_vars /\ []TurnCounts

(* Reached: Black has just moved, the turn is White's again and the move   *)
(* number has gone up.                                                     *)
C14_Witness ==
    /\ ret /\ ply = 1
    /\ game.currentPlayer = "WHITE"
    /\ Len(game.moveHistory) = 4
    /\ game.fullMoveNumber = 3
    /\ game.moveHistory[4].from = <<call.fromRow, call.fromCol>>

(* The standard starting state of a game.                                  *)
StandardStart(g) ==
    LET backRank == <<"ROOK", "KNIGHT", "BISHOP", "QUEEN", "KING", "BISHOP", "KNIGHT", "ROOK">>
        Stands(row, col, type, color) ==
            g.board[row][col] = [type |-> type, color |-> color, row |-> row, col |-> col,
                                 hasMoved |-> FALSE]
    IN  /\ g.currentPlayer = "WHITE"
        /\ g.gameState = "playing"
        /\ \A col \in Rows :
              /\ Stands(0, col, backRank[col + 1], "BLACK")
              /\ Stands(1, col, "PAWN", "BLACK")
              /\ Stands(6, col, "PAWN", "WHITE")
              /\ Stands(7, col, backRank[col + 1], "WHITE")
        /\ \A row \in 2 .. 5, col \in Rows : g.board[row][col] = Null
        /\ \A color \in Colors :
              CountPieces(g, color, {"PAWN", "ROOK", "KNIGHT", "BISHOP", "QUEEN", "KING"}) = 16
        /\ g.kingPositions = [WHITE |-> <<7, 4>>, BLACK |-> <<0, 4>>]
        /\ g.moveHistory = << >>
        /\ g.capturedPieces = [WHITE |-> << >>, BLACK |-> << >>]
        /\ g.enPassantTarget = NullSquare
        /\ g.halfMoveClock = 0
        /\ g.fullMoveNumber = 1

(* C15: a new game, and any game after reset whatever was played before,   *)
(* is in the standard starting state: White to move, status playing, 16    *)
(* pieces a side on rows 0-1 and 6-7 with hasMoved false, the kings on     *)
(* (7,4) and (0,4) and kingPositions saying so, moveHistory and            *)
(* capturedPieces empty, enPassantTarget null, halfMoveClock 0,            *)
(* fullMoveNumber 1.                                                       *)
C15_NewAndResetGameIsStandard == (call = NoCall) => StandardStart(game)

(* Reached: reset has been called after a call of makeMove.                *)
C15_Witness == call = NoCall /\ ply = 1 /\ StandardStart(game)

(* The game c is a faithful copy of the game g.                            *)
FaithfulCopy(g, c) ==
    /\ \A row \in Rows, col \in Rows :
          /\ (c.board[row][col] = Null) = (g.board[row][col] = Null)
          /\ c.board[row][col].type = g.board[row][col].type
          /\ c.board[row][col].color = g.board[row][col].color
          /\ c.board[row][col].hasMoved = g.board[row][col].hasMoved
    /\ c.currentPlayer = g.currentPlayer
    /\ c.gameState = g.gameState
    /\ c.kingPositions = g.kingPositions
    /\ c.enPassantTarget = g.enPassantTarget
    /\ c.halfMoveClock = g.halfMoveClock
    /\ c.fullMoveNumber = g.fullMoveNumber

(* C16: the copy a cloneGame method returns is faithful: every one of the  *)
(* 64 squares holds a piece of the same type, color and hasMoved where the *)
(* original has one and is empty where the original is empty, and          *)
(* currentPlayer, status, kingPositions, enPassantTarget, halfMoveClock    *)
(* and fullMoveNumber are equal, for every reachable original.             *)
C16_CloneIsFaithful ==
    [][(clones = << >> /\ clones' # << >>) => FaithfulCopy(game, clones'[1].game)]_vars

C18_BestMoveUnlessNoLegalMove ==
    \A i \in 1 .. Len(answers) :
        (answers[i].class = "EnhancedChessAI" /\ answers[i].method = "getBestMove")
            => (answers[i].move = NoMove <=> ~answers[i].hasMoves)

(* C19: a call of getBestMove or getHint of either class leaves the game   *)
(* as it was before the call, the side to move included.                   *)
C19_SearchLeavesGame ==
    [][answers' # answers => game' = game]_vars

(* Reached: EnhancedChessAI.getHint and ChessAI.getHint have searched for  *)
(* White a game in which Black is to move and have returned a move, and    *)
(* Black is to move in the game.                                           *)
C19_Witness ==
    /\ Len(answers) = 2
    /\ answers[1].class = "EnhancedChessAI" /\ answers[2].class = "ChessAI"
    /\ \A i \in 1 .. 2 : /\ answers[i].method = "getHint"
                         /\ answers[i].searched
                         /\ answers[i].move # NoMove
                         /\ answers[i].game = game
    /\ game.currentPlayer = "BLACK"

(* C20: at difficulty 5, when the time limit does not pass, getBestMove   *)
(* of EnhancedChessAI calls no random source, and two calls on equal games *)
(* return the same move.                                                   *)
C20_MasterIsDeterministic ==
    \A i \in 1 .. Len(answers) : \A j \in 1 .. Len(answers) :
        (/\ answers[i].class = "EnhancedChessAI" /\ answers[j].class = "EnhancedChessAI"
         /\ answers[i].method = "getBestMove" /\ answers[j].method = "getBestMove"
         /\ answers[i].difficulty = 5 /\ answers[j].difficulty = 5
         /\ ~answers[i].timed /\ ~answers[j].timed
         /\ answers[i].game = answers[j].game)
            => /\ answers[i].draws = 0
               /\ answers[i].move = answers[j].move

(* The statuses the game ends with.                                        *)
TerminalStatuses == {"checkmate", "stalemate", "draw"}

(* C24: the terminal statuses are absorbing: once the game is checkmate,   *)
(* stalemate or draw, no call of makeMove makes it playing or check again: *)
(* from checkmate and stalemate every call returns false and leaves the    *)
(* status, and from draw the status stays draw.                            *)
C24_TerminalStatusAbsorbing ==
    [][(game.gameState \in TerminalStatuses /\ ply' # ply) =>
          /\ game'.gameState = game.gameState
          /\ game.gameState \in {"checkmate", "stalemate"} => ~ret'
      ]_vars

(* The move is legal in the game: its from-square holds a piece of the    *)
(* side to move and makeMove with it returns true.                         *)
LegalIn(g, move) ==
    /\ getPieceAt(g, move.from[1], move.from[2]) # Null
    /\ getPieceAt(g, move.from[1], move.from[2]).color = g.currentPlayer
    /\ makeMoveReturns(g, move.from[1], move.from[2], move.to[1], move.to[2])

RECURSIVE PlainMinimax(_, _, _, _)
PlainMinimax(tree, n, depth, isMaximizing) ==
    IF depth = 0 \/ tree[n].gameState # "playing"
    THEN evaluatePosition(tree[n])
    ELSE IF Len(tree[n].moves) = 0
    THEN IF tree[n].inCheck THEN -20000 ELSE 0
    ELSE LET scores == {PlainMinimax(tree, tree[n].moves[i].to, depth - 1, ~isMaximizing) :
                           i \in 1 .. Len(tree[n].moves)}
         IN  IF isMaximizing
             THEN CHOOSE s \in scores : \A other \in scores : other <= s
             ELSE CHOOSE s \in scores : \A other \in scores : other >= s

RECURSIVE PlainNegamax(_, _, _, _)
PlainNegamax(tree, n, depth, maxDepth) ==
    IF depth = 0 \/ tree[n].gameState # "playing"
    THEN quiescenceSearch(tree, n, -Infinity, Infinity, 0)
    ELSE IF Len(tree[n].moves) = 0
    THEN IF tree[n].inCheck THEN -30000 + (maxDepth - depth) ELSE 0
    ELSE LET scores == {-PlainNegamax(tree, tree[n].moves[i].to, depth - 1, maxDepth) :
                           i \in 1 .. Len(tree[n].moves)}
         IN  CHOOSE s \in scores : \A other \in scores : other <= s

(* C21: the score a pruned search returns at the root equals the score of *)
(* a plain full-width minimax of the same depth over the same moves and    *)
(* the same leaf evaluation: for ChessAI.minimax called by getBestMove,    *)
(* and for every iteration of EnhancedChessAI.alphaBetaRoot.               *)
C21_PrunedEqualsPlain ==
    \A c \in 1 .. Len(search.calls) :
        LET made == search.calls[c]
        IN  /\ made.class = "ChessAI" =>
                  made.score = PlainMinimax(search.tree, 1, search.basic.maxDepth, TRUE)
            /\ made.class = "EnhancedChessAI" =>
                  \A i \in 1 .. Len(made.iterations) :
                      made.iterations[i].score =
                          PlainNegamax(search.tree, 1, made.iterations[i].depth,
                                       search.enhanced.maxDepth)

(* The events of the two engines of the given kind.                        *)
Events(kind) ==
    [enhanced |-> {e \in search.enhanced.events : e.kind = kind},
     basic    |-> {e \in search.basic.events : e.kind = kind}]

(* C25: a node with remaining depth above 0 is returned as a leaf only     *)
(* when the game there is a checkmate, a stalemate or a draw: a node whose *)
(* status is check is expanded, in ChessAI.minimax and in                  *)
(* EnhancedChessAI.alphaBeta.                                              *)
C25_LeafAboveDepthZeroIsTerminal ==
    \A leaf \in Events("leaf").enhanced \cup Events("leaf").basic :
        leaf.depth > 0 => search.tree[leaf.node].gameState \in TerminalStatuses

(* C30: a move is put on the killer list of a depth only when it is not a  *)
(* capture and cut the loop off at that depth, and every killer list of    *)
(* each engine holds at most 2 moves.                                      *)
C30_KillerOnlyOnCutoff ==
    /\ \A killer \in Events("killer").enhanced \cup Events("killer").basic :
          ~killer.move.captured /\ killer.cutoff
    /\ \A d \in DOMAIN search.enhanced.killerMoves : Len(search.enhanced.killerMoves[d]) <= 2
    /\ \A d \in DOMAIN search.basic.killerMoves : Len(search.basic.killerMoves[d]) <= 2

(* C23: every call of getBestMove starts its search with all killer lists  *)
(* empty and the history table empty, whatever the engine searched before. *)
C23_KillersAndHistoryStartEmpty ==
    \A c \in 1 .. Len(search.calls) :
        /\ \A d \in DOMAIN search.calls[c].killerMoves :
              search.calls[c].killerMoves[d] = << >>
        /\ \A key \in DOMAIN search.calls[c].historyTable :
              search.calls[c].historyTable[key] = 0

(* C26: the value EnhancedChessAI.alphaBeta returns for a node is the      *)
(* value for the side to move there.  Where that side is checkmated,       *)
(* WHITE or BLACK, the value is a loss of checkmate magnitude, or alpha    *)
(* when alpha is above it; where the game is a stalemate or a draw the     *)
(* value is 0, or the bound of the window nearest to 0 when 0 lies outside *)
(* the window.                                                             *)
C26_ValueIsForSideToMove ==
    \A leaf \in Events("leaf").enhanced :
        LET gameState == search.tree[leaf.node].gameState
        IN  /\ gameState = "checkmate" =>
                  leaf.score <= Max(leaf.alpha, -30000 + search.enhanced.maxDepth)
            /\ gameState \in {"stalemate", "draw"} =>
                  leaf.score = (IF 0 >= leaf.beta THEN leaf.beta ELSE Max(leaf.alpha, 0))

(* The minimax score of a root move: the value for White of the position   *)
(* it leads to in a plain search of the plies left, White choosing the     *)
(* highest value and Black the lowest.                                     *)
MinimaxScore(tree, move, depth) ==
    PlainMinimax(tree, move.to, depth - 1, tree[move.to].currentPlayer = "WHITE")

(* C27: the move ChessAI.getBestMove returns for a side that is not in     *)
(* check has the highest minimax score of the root moves when WHITE is to  *)
(* move and the lowest when BLACK is to move.                              *)
C27_BestForSideToMove ==
    \A c \in 1 .. Len(search.calls) :
        search.calls[c].class = "ChessAI" =>
            LET tree == search.tree
                depth == search.basic.maxDepth
                best == search.calls[c].move
            IN  /\ best # NoMove
                /\ \A i \in 1 .. Len(tree[1].moves) :
                      IF tree[1].currentPlayer = "WHITE"
                      THEN MinimaxScore(tree, best, depth)
                               >= MinimaxScore(tree, tree[1].moves[i], depth)
                      ELSE MinimaxScore(tree, best, depth)
                               <= MinimaxScore(tree, tree[1].moves[i], depth)

(* C29: the flag EnhancedChessAI.alphaBeta stores with an entry is         *)
(* LOWERBOUND exactly when the loop over the moves ended with alpha >=      *)
(* beta, EXACT exactly when a move raised alpha and the loop was not cut   *)
(* off, and UPPERBOUND exactly when no move raised alpha; and a probe that *)
(* finds an entry of sufficient depth returns the score of an EXACT entry, *)
(* only raises alpha for a LOWERBOUND entry and only lowers beta for an    *)
(* UPPERBOUND entry.                                                       *)
C29_FlagsStoredAndProbed ==
    /\ \A store \in Events("store").enhanced :
          /\ store.flag = "LOWERBOUND" <=> store.cutoff
          /\ store.flag = "EXACT" <=> (store.raised /\ ~store.cutoff)
          /\ store.flag = "UPPERBOUND" <=> ~store.raised
    /\ \A probing \in Events("probe").enhanced :
          probing.entry.depth >= probing.depth =>
              /\ probing.entry.flag = "EXACT" =>
                    probing.probed.returns /\ probing.probed.score = probing.entry.score
              /\ probing.entry.flag = "LOWERBOUND" =>
                    /\ probing.probed.beta = probing.beta
                    /\ probing.probed.alpha = Max(probing.alpha, probing.entry.score)
              /\ probing.entry.flag = "UPPERBOUND" =>
                    /\ probing.probed.alpha = probing.alpha
                    /\ probing.probed.beta = Min(probing.beta, probing.entry.score)

(* C22: an entry of the transposition table whose depth is below the      *)
(* depth left at the node that probes it has no influence there: alphaBeta *)
(* does not return its score and leaves alpha and beta as they were, and   *)
(* minimax does not return it, so the node is searched as without entry.   *)
C22_ShallowEntryIgnored ==
    /\ \A probing \in Events("probe").enhanced :
          probing.entry.depth < probing.depth =>
              /\ ~probing.probed.returns
              /\ probing.probed.alpha = probing.alpha
              /\ probing.probed.beta = probing.beta
    /\ \A probing \in Events("probe").basic :
          probing.entry.depth < probing.depth => ~probing.returns

(* Each engine has probed an entry shallower than the depth left: the      *)
(* EnhancedChessAI an entry an earlier iteration stored, the ChessAI the   *)
(* entry of a position it reached first with less depth left.              *)
C22_Witness ==
    /\ \E probing \in Events("probe").enhanced : probing.entry.depth < probing.depth
    /\ \E probing \in Events("probe").basic : probing.entry.depth < probing.depth

(* The directions a ROOK, a BISHOP and a QUEEN slide in.                   *)
LineDirections(type) ==
    (IF type \in {"ROOK", "QUEEN"} THEN {<<0, 1>>, <<0, -1>>, <<1, 0>>, <<-1, 0>>} ELSE {})
    \cup
    (IF type \in {"BISHOP", "QUEEN"} THEN {<<1, 1>>, <<1, -1>>, <<-1, 1>>, <<-1, -1>>} ELSE {})

(* The squares k steps from <<row, col>> in a direction are empty for all  *)
(* k below the given number of steps.                                      *)
EmptyBefore(board, row, col, dir, steps) ==
    \A k \in 1 .. steps - 1 : board[row + dir[1] * k][col + dir[2] * k] = Null

(* C34: for every piece of the board getPossibleMoves returns only squares *)
(* of the board that are empty or hold a piece of the other color; for a   *)
(* ROOK, a BISHOP and a QUEEN a square is returned exactly when it lies on *)
(* a line the piece slides along, every square between is empty and the   *)
(* square itself is empty or holds a piece of the other color.             *)
C34_PossibleMovesOnFreeSquares ==
    \A row \in Rows : \A col \in Rows :
        LET piece == game.board[row][col]
            moves == getPossibleMoves(piece, game.board, GameContext(game, piece))
            Free(sq) == \/ game.board[sq[1]][sq[2]] = Null
                        \/ game.board[sq[1]][sq[2]].color # piece.color
        IN  piece # Null =>
              /\ \A i \in 1 .. Len(moves) :
                    OnBoard(moves[i][1], moves[i][2]) /\ Free(moves[i])
              /\ piece.type \in {"ROOK", "BISHOP", "QUEEN"} =>
                    /\ \A dir \in LineDirections(piece.type) : \A steps \in 1 .. 7 :
                          LET sq == <<row + dir[1] * steps, col + dir[2] * steps>>
                          IN  OnBoard(sq[1], sq[2]) =>
                                (HasMove(moves, sq[1], sq[2]) <=>
                                    EmptyBefore(game.board, row, col, dir, steps) /\ Free(sq))
                    /\ \A i \in 1 .. Len(moves) :
                          \E dir \in LineDirections(piece.type) : \E steps \in 1 .. 7 :
                              moves[i] = <<row + dir[1] * steps, col + dir[2] * steps>>

(* A ROOK, a BISHOP or a QUEEN has a move of two steps or more onto a      *)
(* piece of the other color, and a piece of its own color stops it two     *)
(* steps or more away in another direction.                                *)
C34_Witness ==
    \E row \in Rows : \E col \in Rows :
        LET piece == game.board[row][col]
        IN  /\ piece # Null /\ piece.type \in {"ROOK", "BISHOP", "QUEEN"}
            /\ \E dir \in LineDirections(piece.type) : \E steps \in 2 .. 7 :
                  LET sq == <<row + dir[1] * steps, col + dir[2] * steps>>
                  IN  /\ OnBoard(sq[1], sq[2])
                      /\ game.board[sq[1]][sq[2]] # Null
                      /\ game.board[sq[1]][sq[2]].color # piece.color
                      /\ HasMove(getPossibleMoves(piece, game.board, GameContext(game, piece)),
                                 sq[1], sq[2])
            /\ \E dir \in LineDirections(piece.type) : \E steps \in 2 .. 7 :
                  LET sq == <<row + dir[1] * steps, col + dir[2] * steps>>
                  IN  /\ OnBoard(sq[1], sq[2])
                      /\ game.board[sq[1]][sq[2]] # Null
                      /\ game.board[sq[1]][sq[2]].color = piece.color
                      /\ EmptyBefore(game.board, row, col, dir, steps)

(* The squares a pawn standing on <<row, col>> may move to, written from   *)
(* the rules of the pawn: one step forward onto an empty square, two from  *)
(* the starting row over two empty squares, one step diagonally forward    *)
(* onto a piece of the other color, and onto the en passant target from    *)
(* the en passant row when the target is one step diagonally forward.      *)
PawnSquares(board, color, row, col, enPassantTarget) ==
    LET forward == IF color = "WHITE" THEN row - 1 ELSE row + 1
        twoForward == IF color = "WHITE" THEN row - 2 ELSE row + 2
    IN  {sq \in Rows \X Rows :
            \/ sq = <<forward, col>> /\ board[forward][col] = Null
            \/ /\ sq = <<twoForward, col>>
               /\ row = (IF color = "WHITE" THEN 6 ELSE 1)
               /\ board[forward][col] = Null
               /\ board[twoForward][col] = Null
            \/ /\ sq[1] = forward
               /\ sq[2] \in {col - 1, col + 1}
               /\ \/ /\ board[sq[1]][sq[2]] # Null
                     /\ board[sq[1]][sq[2]].color # color
                  \/ /\ sq = enPassantTarget
                     /\ row = (IF color = "WHITE" THEN 3 ELSE 4)}

(* C35: for every pawn of the board getPawnMoves returns exactly the       *)
(* squares of the rules of the pawn: never a square straight ahead that is *)
(* occupied, never an empty diagonal square other than the en passant      *)
(* target.                                                                 *)
C35_PawnMovesExact ==
    \A row \in Rows : \A col \in Rows :
        LET piece == game.board[row][col]
            moves == getPawnMoves(piece, game.board, game.enPassantTarget)
        IN  piece # Null /\ piece.type = "PAWN" =>
              /\ {moves[i] : i \in 1 .. Len(moves)} =
                    PawnSquares(game.board, piece.color, row, col, game.enPassantTarget)
              /\ \A i \in 1 .. Len(moves) :
                    /\ moves[i][2] = col => game.board[moves[i][1]][moves[i][2]] = Null
                    /\ moves[i][2] # col /\ game.board[moves[i][1]][moves[i][2]] = Null =>
                          moves[i] = game.enPassantTarget

(* A pawn may capture en passant, and in the same position a pawn is       *)
(* blocked straight ahead and a pawn of the starting row may advance two   *)
(* squares.                                                                *)
C35_Witness ==
    LET Pawns == {sq \in Rows \X Rows :
                     /\ game.board[sq[1]][sq[2]] # Null
                     /\ game.board[sq[1]][sq[2]].type = "PAWN"}
        Moves(sq) == getPawnMoves(game.board[sq[1]][sq[2]], game.board, game.enPassantTarget)
    IN  /\ game.enPassantTarget # NullSquare
        /\ \E sq \in Pawns :
              HasMove(Moves(sq), game.enPassantTarget[1], game.enPassantTarget[2])
        /\ \E sq \in Pawns : \A i \in 1 .. Len(Moves(sq)) : Moves(sq)[i][2] # sq[2]
        /\ \E sq \in Pawns : \E i \in 1 .. Len(Moves(sq)) :
              Abs(Moves(sq)[i][1] - sq[1]) = 2

(* The game getLegalMoves leaves when called for the piece of a square.    *)
AfterGetLegalMoves(g, row, col) ==
    IF g.board[row][col] = Null THEN g ELSE getLegalMovesRun(g, g.board[row][col]).game

(* C33: isLegalMove and getLegalMoves leave the game as they found it: the *)
(* board with the row, the column and hasMoved of every piece,             *)
(* kingPositions, enPassantTarget and capturedPieces are the same after    *)
(* the call.  isLegalMove is called with the squares of every makeMove     *)
(* call on the game the call is made on, getLegalMoves for the piece of    *)
(* its from-square and, after a successful move, for every piece of the    *)
(* game the move leaves.                                                   *)
C33_LegalityTestsLeaveGame ==
    [][/\ isLegalMoveRun(game, call'.fromRow, call'.fromCol,
                         call'.toRow, call'.toCol).game = game
       /\ AfterGetLegalMoves(game, call'.fromRow, call'.fromCol) = game
       /\ ret' => \A row \in Rows : \A col \in Rows :
                      AfterGetLegalMoves(game', row, col) = game'
      ]_vars

(* The side to move has a legal en passant capture, a legal capture of a   *)
(* piece that stands on the square moved to and a legal move of its king.  *)
C33_Witness ==
    LET Mine == {sq \in Rows \X Rows :
                    /\ game.board[sq[1]][sq[2]] # Null
                    /\ game.board[sq[1]][sq[2]].color = game.currentPlayer}
        Legal(sq) == getLegalMoves(game, game.board[sq[1]][sq[2]])
    IN  /\ game.enPassantTarget # NullSquare
        /\ \E sq \in Mine :
              /\ game.board[sq[1]][sq[2]].type = "PAWN"
              /\ HasMove(Legal(sq), game.enPassantTarget[1], game.enPassantTarget[2])
        /\ \E sq \in Mine : \E i \in 1 .. Len(Legal(sq)) :
              game.board[Legal(sq)[i][1]][Legal(sq)[i][2]] # Null
        /\ Len(Legal(game.kingPositions[game.currentPlayer])) > 0

(* The squares of a board that hold a piece of a color.                    *)
SquaresOf(board, color) ==
    {sq \in Rows \X Rows : board[sq[1]][sq[2]] # Null /\ board[sq[1]][sq[2]].color = color}

(* The pieces of each color on the board and on the list of its captured   *)
(* pieces are 16 together, and every piece of the board carries the row    *)
(* and the column of its square.                                           *)
MaterialConserved(g) ==
    /\ \A color \in Colors :
          Cardinality(SquaresOf(g.board, color)) + Len(g.capturedPieces[color]) = 16
    /\ \A row \in Rows : \A col \in Rows :
          g.board[row][col] # Null =>
              g.board[row][col].row = row /\ g.board[row][col].col = col

(* C37: material is conserved by makeMove: before and after every call the *)
(* pieces of a color on the board and its captured pieces are 16 together  *)
(* and every piece stands on the square its row and col name, a move takes *)
(* at most one piece off the board, and what it takes off is what it adds  *)
(* to the captured pieces.                                                 *)
C37_MaterialConserved ==
    [][LET before == Cardinality(SquaresOf(game.board, "WHITE") \cup SquaresOf(game.board, "BLACK"))
           after  == Cardinality(SquaresOf(game'.board, "WHITE") \cup SquaresOf(game'.board, "BLACK"))
       IN  /\ MaterialConserved(game)
           /\ MaterialConserved(game')
           /\ after \in {before, before - 1}
           /\ ~ret' => after = before
      ]_vars

(* A pawn has just been captured en passant: the move before was the       *)
(* advance of a pawn to the square beside the capturing pawn, the last     *)
(* move took a pawn, and the square of the pawn taken is empty.            *)
C37_Witness ==
    LET n == Len(game.moveHistory)
        last == game.moveHistory[n]
    IN  /\ ply = 1 /\ ret /\ n >= 2
        /\ last.piece = "PAWN" /\ last.captured = "PAWN"
        /\ game.moveHistory[n - 1].to = <<last.from[1], last.to[2]>>
        /\ game.board[last.from[1]][last.to[2]] = Null

(* Every piece of g that has not moved stands on the square a piece of its *)
(* type and color starts the game on.                                      *)
UnmovedOnStartingSquare(g) ==
    \A row \in Rows : \A col \in Rows :
        g.board[row][col] # Null /\ ~g.board[row][col].hasMoved =>
            /\ initializeBoard[row][col] # Null
            /\ initializeBoard[row][col].type = g.board[row][col].type
            /\ initializeBoard[row][col].color = g.board[row][col].color

(* after is the game a successful makeMove on before has left: the piece   *)
(* moved (promoted or not) has hasMoved, in a castling the rook has it     *)
(* too, and every other piece that had it keeps it.                        *)
MoveSetsHasMoved(before, after) ==
    LET from == after.lastMove.from
        to == after.lastMove.to
    IN  /\ after.board[to[1]][to[2]] # Null
        /\ after.board[to[1]][to[2]].hasMoved
        /\ before.board[from[1]][from[2]].type = "KING" /\ Abs(to[2] - from[2]) = 2 =>
              LET rook == after.board[from[1]][IF to[2] > from[2] THEN 5 ELSE 3]
              IN  rook # Null /\ rook.type = "ROOK" /\ rook.hasMoved
        /\ \A row \in Rows : \A col \in Rows :
              /\ <<row, col>> # to
              /\ before.board[row][col] # Null /\ before.board[row][col].hasMoved
              /\ after.board[row][col] # Null
              => after.board[row][col].hasMoved

(* copy is the game a cloneGame method has made of g: the copy of every    *)
(* piece of g that has moved has moved.                                    *)
CloneKeepsHasMoved(g, copy) ==
    \A row \in Rows : \A col \in Rows :
        g.board[row][col] # Null /\ g.board[row][col].hasMoved =>
            copy.board[row][col] # Null /\ copy.board[row][col].hasMoved

(* C36: hasMoved is never reset and is exact: every successful makeMove,   *)
(* on the game or on a copy of it, sets it for the piece moved, promoted   *)
(* or not, and for the rook of a castling, and leaves it set for every     *)
(* other piece; a refused makeMove (whose isLegalMove moves the piece      *)
(* temporarily) leaves it as it was; the three cloneGame methods leave it  *)
(* set in the copy; and in the game and in its copy a piece without        *)
(* hasMoved stands on its starting square.                                 *)
C36_HasMovedMonotonicAndExact ==
    [][/\ UnmovedOnStartingSquare(game) /\ UnmovedOnStartingSquare(game')
       /\ ply' # ply =>
             IF ret' THEN MoveSetsHasMoved(game, game') ELSE game'.board = game.board
       /\ clones' # << >> =>
             /\ UnmovedOnStartingSquare(clones'[1].game)
             /\ clones = << >> => CloneKeepsHasMoved(game, clones'[1].game)
             /\ clones # << >> /\ clones'[1].ply # clones[1].ply =>
                   IF clones'[1].ret
                   THEN MoveSetsHasMoved(clones[1].game, clones'[1].game)
                   ELSE clones'[1].game.board = clones[1].game.board
      ]_vars

(* A game has castled and has been copied: the king and the rook have      *)
(* hasMoved in the game and in the copy.                                   *)
C36_Witness ==
    /\ ply = 1 /\ ret
    /\ clones # << >>
    /\ LET last == game.lastMove
           rookCol == IF last.to[2] > last.from[2] THEN 5 ELSE 3
       IN  /\ last.piece = "KING"
           /\ Abs(last.to[2] - last.from[2]) = 2
           /\ game.board[last.to[1]][last.to[2]].hasMoved
           /\ game.board[last.from[1]][rookCol].hasMoved
           /\ clones[1].game.board[last.to[1]][last.to[2]].hasMoved
           /\ clones[1].game.board[last.from[1]][rookCol].hasMoved

(* The call that made the j-th call of a list of the calls of              *)
(* quiescenceSearch in the order they were made: the last call before it   *)
(* that is one ply less deep.                                              *)
HasCaller(calls, j) ==
    \E p \in 1 .. j - 1 : calls[p].depth = calls[j].depth - 1

CallerOf(calls, j) ==
    CHOOSE p \in 1 .. j - 1 :
        /\ calls[p].depth = calls[j].depth - 1
        /\ \A q \in p + 1 .. j - 1 : calls[q].depth # calls[j].depth - 1

(* The greatest number of a finite set of numbers.                         *)
Greatest(numbers) == CHOOSE x \in numbers : \A y \in numbers : y <= x

(* alpha of the caller when it makes the j-th call: the greatest of the    *)
(* alpha it was called with, its stand-pat value and the negated values of *)
(* the calls it has made before.                                           *)
AlphaOfCaller(tree, calls, j) ==
    LET p == CallerOf(calls, j)
    IN  Greatest({calls[p].alpha, evaluatePositionAdvanced(tree[calls[p].node])}
                 \cup {-calls[k].score : k \in {k \in p + 1 .. j - 1 :
                                                    calls[k].depth = calls[j].depth}})

(* C31: quiescenceSearch ends, having made calls of depth 0 to 5 only,     *)
(* the first being the call at the horizon, of depth 0; every deeper call  *)
(* is made by a call one ply less deep, on the position after a move of    *)
(* the caller's position whose target square holds a piece, with the       *)
(* window (-beta, -alpha) of the caller's beta and of its alpha at that    *)
(* time.                                                                   *)
C31_QuiescenceBounded ==
    \A c \in 1 .. Len(search.calls) :
        LET tree == search.tree
            calls == search.calls[c].calls
        IN  /\ Len(calls) >= 1
            /\ calls[1].depth = 0 /\ calls[1].node = search.calls[c].node
            /\ calls[1].alpha = search.calls[c].alpha /\ calls[1].beta = search.calls[c].beta
            /\ \A j \in 1 .. Len(calls) : calls[j].depth \in 0 .. 5
            /\ \A j \in 2 .. Len(calls) :
                  /\ calls[j].depth > 0
                  /\ HasCaller(calls, j)
                  /\ \E i \in 1 .. Len(tree[calls[CallerOf(calls, j)].node].moves) :
                        /\ tree[calls[CallerOf(calls, j)].node].moves[i].captured
                        /\ tree[calls[CallerOf(calls, j)].node].moves[i].to = calls[j].node
                  /\ calls[j].alpha = -calls[CallerOf(calls, j)].beta
                  /\ calls[j].beta = -AlphaOfCaller(tree, calls, j)

(* A call of quiescenceSearch has followed the captures down to depth 5,   *)
(* from a position in which it had searched another capture before, and    *)
(* every position it searched had a quiet move too.                        *)
C31_Witness ==
    \E c \in 1 .. Len(search.calls) :
        LET calls == search.calls[c].calls
        IN  /\ \E j \in 1 .. Len(calls) : calls[j].depth = 5
            /\ \E j \in 2 .. Len(calls) : \E k \in 2 .. j - 1 :
                  calls[j].depth = 1 /\ calls[k].depth = 1
            /\ \A j \in 1 .. Len(calls) :
                  \E i \in 1 .. Len(search.tree[calls[j].node].moves) :
                      ~search.tree[calls[j].node].moves[i].captured

(* The key the opening book is read with for a game.                       *)
BookKey(g) ==
    [i \in 1 .. Len(g.moveHistory) |->
        SquareNotation(g.moveHistory[i].from, g.moveHistory[i].to)]

(* C32: an engine whose difficulty enables the opening book answers        *)
(* getBestMove on a game whose moves so far are a key of the book (a game  *)
(* within its first 10 plies) with one of the replies under that key,      *)
(* without searching, however many calls of getBestMove and getHint it     *)
(* has served before.                                                      *)
C32_BookByGameAlone ==
    \A i \in 1 .. Len(answers) :
        (/\ answers[i].class = "EnhancedChessAI"
         /\ answers[i].method = "getBestMove"
         /\ EnhancedChessAI(answers[i].difficulty).parameters.useOpeningBook
         /\ Len(answers[i].game.moveHistory) < 10
         /\ BookMoves(BookKey(answers[i].game)) # << >>)
            => /\ ~answers[i].searched
               /\ \E k \in 1 .. Len(BookMoves(BookKey(answers[i].game))) :
                     SquareNotation(answers[i].move.from, answers[i].move.to)
                         = BookMoves(BookKey(answers[i].game))[k]

----------------------------------------------------------------------------
(***************************************************************************)
(* C38: under every interleaving of the user's events with the pending     *)
(* timers, every move that makeAIMove applies to the game is a move of a   *)
(* piece of the AI's color, the color opposite playerColor at the time the *)
(* move is applied.                                                        *)
(***************************************************************************)
C38_AIMovesItsOwnColor ==
    ui.applied.by = "AI" => ui.applied.color = OppositeColor(ui.applied.playerColor)

----------------------------------------------------------------------------
(***************************************************************************)
(* C39: after a successful move of the player that leaves the game live,   *)
(* eventually the AI has applied a move and it is the player's turn in the *)
(* game again, or the game is over (or the user has started a new game);   *)
(* and the controller never settles, with no timer pending, with           *)
(* isPlayerTurn true and isThinking false while the game is live and the   *)
(* side to move is still the AI's color.                                   *)
(***************************************************************************)
Live(g) == g.gameState \in {"playing", "check"}

PlayerHasMoved == ui.applied.by = "player" /\ Live(game)

AIHasAnswered ==
    \/ ui.applied.by = "AI" /\ game.currentPlayer = ui.playerColor
    \/ ~Live(game)
    \/ ui.applied = NoneApplied

Settled == ui.timers = << >>

WaitsForTheWrongSide ==
    /\ ui.isPlayerTurn
    /\ ~ui.isThinking
    /\ Live(game)
    /\ game.currentPlayer = OppositeColor(ui.playerColor)

C39_AIAnswersThePlayer ==
    /\ PlayerHasMoved ~> AIHasAnswered
    /\ [](Settled => ~WaitsForTheWrongSide)

====
